---- MODULE Spec2Model ----
(***************************************************************************)
(* ScrapeStudio: the rule-driven extraction pipeline.                      *)
(*   scraper/content_router.py  ContentRouter (field extraction)           *)
(*   scraper/fetcher_pool.py    FetcherPool (concurrent fetch)             *)
(*   scraper/searcher.py        run_pipeline (orchestration)               *)
(*   scraper/config_manager.py  ConfigManager.load_config                  *)
(*                                                                         *)
(*   rag_data_studio/main_application.py  ScrapeRunner (worker object)     *)
(*   storage/database_inserter.py  DatabaseInserter (SQLite sink)          *)
(*                                                                         *)
(* The specifications of the module:                                       *)
(*   SpecField  _extract_custom_fields applied to one rule and one document*)
(*   SpecFetch  one FetcherPool.fetch_all call, workers interleaved        *)
(*   Spec       run_pipeline over a configuration of sources               *)
(*   SpecHtml   run_pipeline_on_html over a configuration and one HTML text*)
(*   SpecRunner ScrapeRunner.run around either pipeline, with interruption *)
(*   SpecExecutor  SpecRunner where executor.submit may fail in fetch_all   *)
(*   SpecStore  DatabaseInserter.insert_player_stats calls on one database *)
(***************************************************************************)
EXTENDS Integers, Sequences, FiniteSets, TLC

\* ------------------------------------------------------------------ bounds
MaxRows == 2        \* container elements (<tr>) in a document
MaxChildren == 2    \* sub_selectors of a structured_list rule
MaxTasks == 3       \* tasks of one fetch_all call (SpecFetch)
MaxSeeds == 3       \* seed URLs of one source (Spec)

\* --------------------------------------------------------- program constants
MAX_CONCURRENT_FETCHERS == 5

\* ------------------------------------------------------------ Python values
\* None, str, list as tagged records; a str is its sequence of characters.
None == [t |-> "none"]
Str(s) == [t |-> "str", s |-> s]
List(xs) == [t |-> "list", items |-> xs]

\* A dict, in insertion order: a sequence of [key, val]; d[k] = v overwrites in place.
DictKeys(d) == {d[i].key : i \in 1..Len(d)}
DictGet(d, k) == LET i == CHOOSE j \in 1..Len(d) : d[j].key = k IN d[i].val
DictSet(d, k, v) ==
  IF k \in DictKeys(d)
  THEN [i \in 1..Len(d) |-> IF d[i].key = k THEN [key |-> k, val |-> v] ELSE d[i]]
  ELSE Append(d, [key |-> k, val |-> v])

\* ---------------------------------------------------------------- documents
\* A parsed page: a sequence of <tr> containers, each a sequence of cells.
\* A cell has a tag, one text node and possibly an href attribute.
NoAttr == [has |-> FALSE, v |-> <<>>]
Attr(s) == [has |-> TRUE, v |-> s]
Cell(tag, text, attr) == [tag |-> tag, text |-> text, attr |-> attr]

HeaderRow == << Cell("th", <<"h">>, NoAttr), Cell("th", <<"i">>, NoAttr) >>
DataRow == << Cell("td", <<" ", "a", " ">>, Attr(<<"x">>)), Cell("td", <<"b">>, Attr(<<>>)) >>
GapRow == << Cell("td", <<" ", " ">>, NoAttr), Cell("td", <<"c">>, Attr(<<"y">>)) >>
BlankRow == << Cell("td", <<" ">>, NoAttr) >>
EmptyRow == << >>
RowPalette == {HeaderRow, DataRow, GapRow, BlankRow, EmptyRow}

SeqsUpTo(S, n) == UNION {[1..k -> S] : k \in 0..n}
Docs == SeqsUpTo(RowPalette, MaxRows)

\* Elements are named by their path: <<>> the soup, <<i>> row i, <<i, j>> cell j of row i.
RECURSIVE Flatten(_)
Flatten(ss) == IF ss = <<>> THEN <<>> ELSE Head(ss) \o Flatten(Tail(ss))

\* The descendants of a context element, in document order (the element itself excluded).
Descendants(doc, ctx) ==
  IF Len(ctx) = 0
  THEN Flatten([i \in 1..Len(doc) |-> <<(<<i>>)>> \o [j \in 1..Len(doc[i]) |-> <<i, j>>]])
  ELSE IF Len(ctx) = 1
  THEN [j \in 1..Len(doc[ctx[1]]) |-> <<ctx[1], j>>]
  ELSE <<>>

\* How many cells of tag `tag` row i holds among its first j cells.
RECURSIVE TypeIndex(_, _, _, _)
TypeIndex(doc, i, j, tag) ==
  IF j = 0 THEN 0
  ELSE TypeIndex(doc, i, j - 1, tag) + (IF doc[i][j].tag = tag THEN 1 ELSE 0)

ValidSelectors == {"tr", "td", "th", "td:nth-of-type(2)"}
InvalidSelector == "[["

Matches(doc, p, sel) ==
  CASE sel = "tr" -> Len(p) = 1
    [] sel = "td" -> Len(p) = 2 /\ doc[p[1]][p[2]].tag = "td"
    [] sel = "th" -> Len(p) = 2 /\ doc[p[1]][p[2]].tag = "th"
    [] sel = "td:nth-of-type(2)" ->
         Len(p) = 2 /\ doc[p[1]][p[2]].tag = "td" /\ TypeIndex(doc, p[1], p[2], "td") = 2
    [] OTHER -> FALSE

RECURSIVE SelectFrom(_, _, _)
SelectFrom(doc, ps, sel) ==
  IF ps = <<>> THEN <<>>
  ELSE (IF Matches(doc, Head(ps), sel) THEN <<Head(ps)>> ELSE <<>>)
       \o SelectFrom(doc, Tail(ps), sel)

\* context.select(selector): the matching descendants in document order, or the
\* exception an invalid selector raises.
Select(doc, ctx, sel) ==
  IF sel \in ValidSelectors
  THEN [raised |-> FALSE, elems |-> SelectFrom(doc, Descendants(doc, ctx), sel)]
  ELSE [raised |-> TRUE, elems |-> <<>>]

IsSpace(c) == c = " "

RECURSIVE LStrip(_)
LStrip(s) == IF s # <<>> /\ IsSpace(Head(s)) THEN LStrip(Tail(s)) ELSE s

RECURSIVE RStrip(_)
RStrip(s) ==
  IF s # <<>> /\ IsSpace(s[Len(s)]) THEN RStrip(SubSeq(s, 1, Len(s) - 1)) ELSE s

Strip(s) == RStrip(LStrip(s))

\* elem.get_text(strip=True): every text node stripped, the empty ones dropped, joined.
GetText(doc, p) ==
  IF Len(p) = 2 THEN Strip(doc[p[1]][p[2]].text)
  ELSE Flatten([j \in 1..Len(doc[p[1]]) |-> Strip(doc[p[1]][j].text)])

\* elem.get(name): None when the element lacks the attribute.
ElemGet(doc, p, name) ==
  IF Len(p) = 2 /\ name = "href" /\ doc[p[1]][p[2]].attr.has
  THEN Str(doc[p[1]][p[2]].attr.v)
  ELSE None

\* str(elem): the serialized markup.
CellMarkup(c) ==
  <<"<", c.tag>> \o (IF c.attr.has THEN <<" href=">> \o c.attr.v ELSE <<>>) \o <<">">>
  \o c.text \o <<"</", c.tag, ">">>

ElemStr(doc, p) ==
  IF Len(p) = 2 THEN CellMarkup(doc[p[1]][p[2]])
  ELSE <<"<tr>">> \o Flatten([j \in 1..Len(doc[p[1]]) |-> CellMarkup(doc[p[1]][j])])
       \o <<"</tr>">>

\* -------------------------------------------------------------------- rules
\* CustomFieldConfig. attribute_name "" stands for None; sub_selectors of a leaf is <<>>.
NoName == ""
Rule(name, selector, extract_type, attribute_name, is_list, sub_selectors) ==
  [name |-> name, selector |-> selector, extract_type |-> extract_type,
   attribute_name |-> attribute_name, is_list |-> is_list, sub_selectors |-> sub_selectors]

\* The value one matched element yields for a rule (the body of the loop over elements).
ElemValue(doc, p, config) ==
  IF config.extract_type = "text" THEN Str(GetText(doc, p))
  ELSE IF config.extract_type = "attribute" /\ config.attribute_name # NoName
  THEN ElemGet(doc, p, config.attribute_name)
  ELSE IF config.extract_type = "html" THEN Str(ElemStr(doc, p))
  ELSE None

\* Mutant of CollectValues: the empty strings are kept.
RECURSIVE CollectValues_KeepEmpty(_, _, _)
CollectValues_KeepEmpty(doc, elems, config) ==
  IF elems = <<>> THEN <<>>
  ELSE LET value == ElemValue(doc, Head(elems), config) IN
       (IF value # None THEN <<value>> ELSE <<>>)
       \o CollectValues_KeepEmpty(doc, Tail(elems), config)

\* values: the elements' values, None and "" left out.
RECURSIVE CollectValues(_, _, _)
CollectValues(doc, elems, config) ==
  IF elems = <<>> THEN <<>>
  ELSE LET value == ElemValue(doc, Head(elems), config) IN
       (IF value # None /\ value # Str(<<>>) THEN <<value>> ELSE <<>>)
       \o CollectValues(doc, Tail(elems), config)

extract_single_field(doc, ctx, config) ==
  LET sel == Select(doc, ctx, config.selector) IN
  IF sel.raised THEN None
  ELSE IF sel.elems = <<>> THEN (IF config.is_list THEN List(<<>>) ELSE None)
  ELSE LET values == CollectValues(doc, sel.elems, config) IN
       IF values = <<>> THEN (IF config.is_list THEN List(<<>>) ELSE None)
       ELSE IF config.is_list THEN List(values) ELSE values[1]

\* Mutant of ItemData: a sub-selector that yields None leaves no key.
RECURSIVE ItemData_SkipNone(_, _, _, _)
ItemData_SkipNone(doc, container, subs, item_data) ==
  IF subs = <<>> THEN item_data
  ELSE LET sub_value == extract_single_field(doc, container, Head(subs)) IN
       ItemData_SkipNone(doc, container, Tail(subs),
                         IF sub_value = None THEN item_data
                         ELSE DictSet(item_data, Head(subs).name, sub_value))

\* item_data of one container: every sub-selector's value under its name.
RECURSIVE ItemData(_, _, _, _)
ItemData(doc, container, subs, item_data) ==
  IF subs = <<>> THEN item_data
  ELSE ItemData(doc, container, Tail(subs),
                DictSet(item_data, Head(subs).name,
                        extract_single_field(doc, container, Head(subs))))

\* non_empty_fields > 0
HasData(item_data) ==
  \E i \in 1..Len(item_data) : item_data[i].val # None /\ item_data[i].val # Str(<<>>)

RECURSIVE StructuredRows(_, _, _)
StructuredRows(doc, containers, subs) ==
  IF containers = <<>> THEN <<>>
  ELSE LET item_data == ItemData(doc, Head(containers), subs, <<>>) IN
       (IF HasData(item_data) THEN <<item_data>> ELSE <<>>)
       \o StructuredRows(doc, Tail(containers), subs)

\* One pass of the loop over custom_fields: custom_data after field_config, or the
\* exception that leaves the loop.
ExtractField(doc, field_config, custom_data) ==
  IF field_config.extract_type = "structured_list"
  THEN LET sel == Select(doc, <<>>, field_config.selector) IN
       IF sel.raised THEN [raised |-> TRUE, data |-> custom_data]
       ELSE IF sel.elems = <<>>
       THEN [raised |-> FALSE, data |-> DictSet(custom_data, field_config.name, List(<<>>))]
       ELSE [raised |-> FALSE,
             data |-> DictSet(custom_data, field_config.name,
                              List(StructuredRows(doc, sel.elems, field_config.sub_selectors)))]
  ELSE [raised |-> FALSE,
        data |-> DictSet(custom_data, field_config.name,
                         extract_single_field(doc, <<>>, field_config))]

RECURSIVE ExtractFields(_, _, _)
ExtractFields(doc, fields, custom_data) ==
  IF fields = <<>> THEN [raised |-> FALSE, data |-> custom_data]
  ELSE LET r == ExtractField(doc, Head(fields), custom_data) IN
       IF r.raised THEN r ELSE ExtractFields(doc, Tail(fields), r.data)

\* custom_fields: the rules of config.selectors (<<>> when there are none).
extract_custom_fields(doc, custom_fields) ==
  IF custom_fields = <<>> THEN [raised |-> FALSE, data |-> <<>>]
  ELSE ExtractFields(doc, custom_fields, <<>>)

\* ------------------------------------------------------- rules of SpecField
LeafShapes ==
  [selector : {"td"}, extract_type : {"text", "attribute", "html"}, is_list : BOOLEAN]
  \cup [selector : {"td:nth-of-type(2)", "th", "tr"}, extract_type : {"text"}, is_list : {FALSE}]
  \cup [selector : {InvalidSelector}, extract_type : {"text"}, is_list : BOOLEAN]

Leaf(name, shape) ==
  Rule(name, shape.selector, shape.extract_type,
       IF shape.extract_type = "attribute" THEN "href" ELSE NoName, shape.is_list, <<>>)

ChildNames == <<"name", "score", "extra", "more">>

\* The sub_selectors of a structured_list rule: distinct names by position, or (dup) one
\* name shared by all, which the configuration model accepts as well.
Children(shapes, dup) ==
  [k \in 1..Len(shapes) |-> Leaf(IF dup THEN ChildNames[1] ELSE ChildNames[k], shapes[k])]

StructuredRules ==
  {Rule("table_data", sel, "structured_list", NoName, FALSE, Children(shapes, dup)) :
     sel \in {"tr", InvalidSelector},
     shapes \in (SeqsUpTo(LeafShapes, MaxChildren) \ {<<>>}),
     dup \in BOOLEAN}

FieldRules == {Leaf("field", sh) : sh \in LeafShapes} \cup StructuredRules

\* -------------------------------------------------------------------- state
VARIABLES
  f_doc,      \* SpecField: the document
  f_rule,     \* SpecField: the rule applied, NoRule before the call
  f_out,      \* SpecField: what _extract_custom_fields returned or raised
  pc,         \* where the calling thread stands
  num_workers,\* FetcherPool.num_workers
  futs,       \* the futures of the running fetch_all, in submission order
  yielded,    \* the futures as_completed has handed to the loop
  results,    \* fetch_all's results list
  log,        \* logger.error records of the fetcher: [by, task]
  fetch_ret,  \* SpecFetch: the list fetch_all returned
  cfg,        \* run_pipeline: what is behind config_path
  src_i,      \* run_pipeline: index of the source in the loop over sources
  shutdowns,  \* run_pipeline: calls of fetcher.shutdown()
  fetched_items,        \* run_pipeline: what fetch_all returned for the source
  item_i,               \* run_pipeline: index in the loop over fetched_items
  parsed_item,          \* run_pipeline: what route_and_parse gave for the last item
  all_extracted_items,  \* run_pipeline: the StructuredDataItems so far
  metrics,              \* run_pipeline: urls_fetched, items_extracted, errors
  returned,             \* run_pipeline: the pair it returned
  history,              \* run_pipeline: every task outcome and every route_and_parse call
  progress_callback,    \* the callback handed to the pipeline: "none" or "runner"
  is_interrupted,       \* ScrapeRunner._is_interrupted
  progress,             \* the calls of progress_callback: [msg, src, raised]
  signal,               \* ScrapeRunner: the signal run() emitted, "" while none
  html_content,         \* run_pipeline_on_html: the HTML handed in
  today,                \* DatabaseInserter: date.today()
  durable,              \* DatabaseInserter: the committed tables
  conn,                 \* DatabaseInserter: the tables as the connection sees them
  batch,                \* insert_player_stats: the items of the running call
  pos,                  \* insert_player_stats: the item and the row the loops stand at
  total_inserted,       \* insert_player_stats: rows written by the running call
  commits,              \* insert_player_stats: commits made during the running call
  calls,                \* insert_player_stats: the calls that have returned
  current_project,      \* RAGDataStudio.current_project: the ProjectConfig in the window
  backend_thread,       \* RAGDataStudio.backend_thread: "none", or "running" once started
  run_scrape_btn,       \* RAGDataStudio.run_scrape_btn.isEnabled()
  scrapes               \* the scrapes run_full_scrape has started

fieldVars == <<f_doc, f_rule, f_out>>
fetchVars == <<pc, num_workers, futs, yielded, results, log, fetch_ret>>
fetchVarsButPc == <<num_workers, futs, yielded, results, log, fetch_ret>>
pipeVars == <<cfg, src_i, shutdowns, fetched_items, item_i, parsed_item,
              all_extracted_items, metrics, returned, history>>
runVars == <<progress_callback, is_interrupted, progress, signal, html_content>>
storeVars == <<today, durable, conn, batch, pos, total_inserted, commits, calls>>
guiVars == <<current_project, backend_thread, run_scrape_btn, scrapes>>
vars == <<f_doc, f_rule, f_out, pc, num_workers, futs, yielded, results, log, fetch_ret,
          cfg, src_i, shutdowns, fetched_items, item_i, parsed_item,
          all_extracted_items, metrics, returned, history,
          progress_callback, is_interrupted, progress, signal, html_content,
          today, durable, conn, batch, pos, total_inserted, commits, calls,
          current_project, backend_thread, run_scrape_btn, scrapes>>

NoRule == Rule("", "", "", NoName, FALSE, <<>>)
NoOut == [raised |-> FALSE, data |-> <<>>]
NoMetrics == [urls_fetched |-> 0, items_extracted |-> 0, errors |-> <<>>]
NoCfg == [load |-> "none", sources |-> <<>>]
NotReturned == [done |-> FALSE, items |-> <<>>, metrics |-> NoMetrics]
NoParsed == [raised |-> FALSE, none |-> TRUE, title |-> None, main_text_content |-> None,
             custom_fields |-> <<>>]

\* The variables of a specification that does not use them.
FieldIdle == f_doc = <<>> /\ f_rule = NoRule /\ f_out = NoOut

PipeIdle ==
  /\ cfg = NoCfg
  /\ src_i = 0
  /\ shutdowns = 0
  /\ fetched_items = <<>>
  /\ item_i = 0
  /\ parsed_item = NoParsed
  /\ all_extracted_items = <<>>
  /\ metrics = NoMetrics
  /\ returned = NotReturned
  /\ history = <<>>

NoHtml == [size |-> 0, page |-> <<>>]

\* No ScrapeRunner and no callback: the pipeline is called directly.
RunIdle ==
  /\ progress_callback = "none"
  /\ is_interrupted = FALSE
  /\ progress = <<>>
  /\ signal = ""
  /\ html_content = NoHtml

\* The two tables right after _create_tables on a new file.
EmptyDb == [players |-> <<>>, stats |-> <<>>]
NoPos == [item |-> 0, row |-> 0]

\* No DatabaseInserter call is under way and none has been made.
StoreIdle ==
  /\ today = 1
  /\ durable = EmptyDb
  /\ conn = EmptyDb
  /\ batch = <<>>
  /\ pos = NoPos
  /\ total_inserted = 0
  /\ commits = 0
  /\ calls = <<>>

\* A ProjectConfig as far as a scrape reads it (core/models.py).
ProjectConfig(target_websites, scraping_rules) ==
  [target_websites |-> target_websites, scraping_rules |-> scraping_rules]

NoProject == ProjectConfig(<<>>, <<>>)

\* The window right after __init__: no project, no thread, the Run button enabled.
GuiIdle ==
  /\ current_project = NoProject
  /\ backend_thread = "none"
  /\ run_scrape_btn = TRUE
  /\ scrapes = 0

\* FetcherPool.__init__ has run and no fetch_all call is under way.
PoolFresh ==
  /\ futs = <<>>
  /\ yielded = {}
  /\ results = <<>>
  /\ log = <<>>
  /\ fetch_ret = <<>>

\* ---------------------------------------------------------------- SpecField
FieldInit ==
  /\ f_doc \in Docs
  /\ f_rule = NoRule
  /\ f_out = NoOut
  /\ pc = "idle"
  /\ num_workers = MAX_CONCURRENT_FETCHERS
  /\ PoolFresh
  /\ PipeIdle
  /\ RunIdle
  /\ StoreIdle
  /\ GuiIdle

\* _extract_custom_fields(soup, config) for a source with the one rule.
ExtractCall ==
  /\ f_rule = NoRule
  /\ \E rule \in FieldRules :
       /\ f_rule' = rule
       /\ f_out' = extract_custom_fields(f_doc, <<rule>>)
  /\ UNCHANGED f_doc
  /\ UNCHANGED fetchVars
  /\ UNCHANGED pipeVars
  /\ UNCHANGED runVars
  /\ UNCHANGED storeVars
  /\ UNCHANGED guiVars

FieldNext == ExtractCall

SpecField == FieldInit /\ [][FieldNext]_vars

\* -------------------------------------------------------------------- pages
\* What a URL serves: the response text, as the document BeautifulSoup parses it to, the
\* text of its <title> (None when it has none) and what trafilatura.extract makes of it.
Page(empty, title, rows, readable) ==
  [empty |-> empty, title |-> title, rows |-> rows, readable |-> readable]

TablePage == Page(FALSE, Str(<<"T">>), <<HeaderRow, DataRow>>, Str(<<"a", "b">>))
BlankPage == Page(FALSE, None, <<BlankRow>>, None)
EmptyPage == Page(TRUE, None, <<>>, None)
GapPage == Page(FALSE, Str(<<" ", "G">>), <<GapRow, HeaderRow>>, Str(<<"c">>))
TitledPage == Page(FALSE, Str(<<"T">>), <<DataRow>>, Str(<<"a">>))

AllUrls == <<"u1", "u2", "u3", "u4">>

PageOf(url) ==
  CASE url = "u1" -> TablePage
    [] url = "u2" -> BlankPage
    [] url = "u3" -> EmptyPage
    [] url = "u5" -> TitledPage
    [] OTHER -> GapPage

\* ---------------------------------------------------------- route_and_parse
\* Python truth of an Optional[str].
Truthy(v) == v # None /\ v # Str(<<>>)

\* soup.select_one(selector): the first match, its stripped text, or the exception.
SelectOne(page, sel) ==
  IF sel = "title"
  THEN [raised |-> FALSE, found |-> page.title # None,
        text |-> IF page.title # None THEN Str(Strip(page.title.s)) ELSE None]
  ELSE LET r == Select(page.rows, <<>>, sel) IN
       [raised |-> r.raised, found |-> r.elems # <<>>,
        text |-> IF r.elems # <<>> THEN Str(GetText(page.rows, r.elems[1])) ELSE None]

\* title = item.title, else the text of the element the title selector finds.
ResolveTitle(item, selectors) ==
  IF Truthy(item.title) THEN [raised |-> FALSE, v |-> item.title]
  ELSE LET title_selector == IF selectors.title # NoName THEN selectors.title ELSE "title"
           title_tag == SelectOne(item.content, title_selector) IN
       IF title_tag.raised THEN [raised |-> TRUE, v |-> None]
       ELSE [raised |-> FALSE, v |-> IF title_tag.found THEN title_tag.text ELSE item.title]

\* main_text: the main-content element's text, else trafilatura.extract(item.content).
ResolveMainText(item, selectors) ==
  LET content_tag == IF selectors.main_content # NoName
                     THEN SelectOne(item.content, selectors.main_content)
                     ELSE [raised |-> FALSE, found |-> FALSE, text |-> None]
      main_text == IF content_tag.found THEN content_tag.text ELSE None IN
  IF content_tag.raised THEN [raised |-> TRUE, v |-> None]
  ELSE [raised |-> FALSE, v |-> IF Truthy(main_text) THEN main_text ELSE item.content.readable]

\* route_and_parse(item, config): a ParsedItem, None (no content) or an exception.
\* extract_relevant_links is left out: its result reaches no output of the pipeline.
route_and_parse(item, config) ==
  IF item.content.empty THEN NoParsed
  ELSE LET title == ResolveTitle(item, config.selectors)
           main_text == ResolveMainText(item, config.selectors)
           custom == extract_custom_fields(item.content.rows, config.selectors.custom_fields)
       IN IF title.raised \/ main_text.raised \/ custom.raised
          THEN [NoParsed EXCEPT !.raised = TRUE, !.none = FALSE]
          ELSE [raised |-> FALSE, none |-> FALSE, title |-> title.v,
                main_text_content |-> main_text.v, custom_fields |-> custom.data]

\* -------------------------------------------------------------- FetcherPool
\* What session.get / raise_for_status / FetchedItem(...) do for one URL:
\*   ok             a 2xx response
\*   http_error     raise_for_status raises HTTPError (a RequestException)
\*   network_error  ConnectionError, Timeout, ... (RequestException)
\*   exception      anything that is no RequestException
FetchOutcomes == {"ok", "http_error", "network_error", "exception"}

\* What the future of fetch_url holds in the end.
fetch_url(outcome) ==
  IF outcome = "ok" THEN "item"
  ELSE IF outcome \in {"http_error", "network_error"} THEN "none"
  ELSE "raised"

\* Whether fetch_url logs the failure itself (its except clause).
FetchUrlLogs(outcome) == outcome \in {"http_error", "network_error"}

Future(url) == [url |-> url, st |-> "pending", attempts |-> 0, outcome |-> "", result |-> ""]

\* fetch_all, first line: one future per task, queued on the executor.
SubmitAll(tasks) == [i \in 1..Len(tasks) |-> Future(tasks[i])]

Running == {i \in 1..Len(futs) : futs[i].st = "running"}
Pending == {i \in 1..Len(futs) : futs[i].st = "pending"}
DoneFuts == {i \in 1..Len(futs) : futs[i].st = "done"}

SetMin(S) == CHOOSE x \in S : \A y \in S : x <= y

\* A free worker thread takes the oldest queued work item and issues its GET.
WorkerStart ==
  /\ Pending # {}
  /\ Cardinality(Running) < num_workers
  /\ LET i == SetMin(Pending) IN
       futs' = [futs EXCEPT ![i].st = "running", ![i].attempts = @ + 1]
  /\ UNCHANGED <<pc, num_workers, yielded, results, log, fetch_ret>>
  /\ UNCHANGED fieldVars
  /\ UNCHANGED runVars
  /\ UNCHANGED storeVars
  /\ UNCHANGED pipeVars
  /\ UNCHANGED guiVars

\* fetch_url runs to its end on a worker thread.
WorkerFinish ==
  /\ \E i \in Running, outcome \in FetchOutcomes :
       /\ futs' = [futs EXCEPT ![i].st = "done", ![i].outcome = outcome,
                               ![i].result = fetch_url(outcome)]
       /\ log' = IF FetchUrlLogs(outcome)
                 THEN Append(log, [by |-> "fetch_url", task |-> i])
                 ELSE log
  /\ UNCHANGED <<pc, num_workers, yielded, results, fetch_ret>>
  /\ UNCHANGED fieldVars
  /\ UNCHANGED runVars
  /\ UNCHANGED storeVars
  /\ UNCHANGED pipeVars
  /\ UNCHANGED guiVars

\* The item fetch_url built for future i (title is left at its default, None).
FetchedItem(i) ==
  [task |-> i, source_url |-> futs[i].url, content |-> PageOf(futs[i].url), title |-> None]

\* One pass of the loop over as_completed(futures).
Collect ==
  /\ pc = "fetch_all"
  /\ \E i \in DoneFuts \ yielded :
       /\ yielded' = yielded \cup {i}
       /\ results' = IF futs[i].result = "item" THEN Append(results, FetchedItem(i))
                     ELSE results
       /\ log' = IF futs[i].result = "raised"
                 THEN Append(log, [by |-> "fetch_all", task |-> i])
                 ELSE log
  /\ UNCHANGED <<pc, num_workers, futs, fetch_ret>>
  /\ UNCHANGED fieldVars
  /\ UNCHANGED runVars
  /\ UNCHANGED storeVars
  /\ UNCHANGED pipeVars
  /\ UNCHANGED guiVars

\* Mutant of AllYielded: the loop is left as soon as one future has been handled.
AllYielded_FirstOnly == yielded # {} \/ futs = <<>>

\* as_completed(futures) is exhausted: every future has been handed to the loop.
AllYielded == yielded = 1..Len(futs)

\* ---------------------------------------------------------------- SpecFetch
TaskUrls == {"u1", "u2"}
WorkerCounts == {1, 2, MAX_CONCURRENT_FETCHERS}

FetchInit ==
  /\ FieldIdle
  /\ PipeIdle
  /\ pc = "idle"
  /\ num_workers \in WorkerCounts
  /\ PoolFresh
  /\ RunIdle
  /\ StoreIdle
  /\ GuiIdle

\* fetcher.fetch_all(tasks) is called.
FetchAllCall ==
  /\ pc = "idle"
  /\ \E tasks \in SeqsUpTo(TaskUrls, MaxTasks) :
       futs' = SubmitAll(tasks)
  /\ pc' = "fetch_all"
  /\ UNCHANGED <<num_workers, yielded, results, log, fetch_ret>>
  /\ UNCHANGED fieldVars
  /\ UNCHANGED runVars
  /\ UNCHANGED storeVars
  /\ UNCHANGED pipeVars
  /\ UNCHANGED guiVars

\* as_completed is exhausted: return results.
FetchAllReturn ==
  /\ pc = "fetch_all"
  /\ AllYielded
  /\ fetch_ret' = results
  /\ pc' = "returned"
  /\ UNCHANGED <<num_workers, futs, yielded, results, log>>
  /\ UNCHANGED fieldVars
  /\ UNCHANGED runVars
  /\ UNCHANGED storeVars
  /\ UNCHANGED pipeVars
  /\ UNCHANGED guiVars

FetchNext == FetchAllCall \/ WorkerStart \/ WorkerFinish \/ Collect \/ FetchAllReturn

SpecFetch == FetchInit /\ [][FetchNext]_vars

\* ----------------------------------------------------------- configurations
Source(name, seeds, custom_fields) ==
  [name |-> name, seeds |-> seeds,
   selectors |-> [title |-> NoName, main_content |-> NoName, custom_fields |-> custom_fields]]

Heading == Leaf("heading", [selector |-> "th", extract_type |-> "text", is_list |-> FALSE])
Broken == Leaf("broken", [selector |-> InvalidSelector, extract_type |-> "text", is_list |-> FALSE])
NameScore ==
  << Leaf("name", [selector |-> "td", extract_type |-> "text", is_list |-> FALSE]),
     Leaf("score", [selector |-> "td:nth-of-type(2)", extract_type |-> "text", is_list |-> FALSE]) >>
TableData == Rule("table_data", "tr", "structured_list", NoName, FALSE, NameScore)
BrokenTable == Rule("table_data", InvalidSelector, "structured_list", NoName, FALSE, NameScore)

FieldSets == { <<>>, <<Heading, TableData>>, <<Broken, Heading>>, <<BrokenTable, Heading>> }

\* The seed lists: the runs u_a .. u_b of the URLs, the empty list among them.
SeedLists == {SubSeq(AllUrls, a, b) : a \in 1..MaxSeeds, b \in 0..MaxSeeds}

Sources == {Source("first", seeds, fields) : seeds \in SeedLists, fields \in FieldSets}
SecondSources ==
  {Source("second", <<"u1">>, fields) :
     fields \in { <<Heading, TableData>>, <<BrokenTable, Heading>> }}

\* What ConfigManager.load_config meets:
\*   ok         the file is read and parses; its rules are validated on construction
\*   not_found  FileNotFoundError
\*   invalid    yaml.YAMLError or ValueError (pydantic's ValidationError is one)
\*   crash      any other exception (PermissionError, TypeError on an empty file, ...)
Configs ==
  {[load |-> l, sources |-> <<>>] : l \in {"ok", "not_found", "invalid", "crash"}}
  \cup {[load |-> "ok", sources |-> <<s>>] : s \in Sources}
  \cup {[load |-> "ok", sources |-> <<s, t>>] : s \in Sources, t \in SecondSources}

\* CustomFieldConfig.validate_dependencies on one constructed rule: it returns (TRUE) or
\* raises ValueError. `not self.attribute_name` and `not self.sub_selectors` take a missing
\* value and an empty one alike.
validate_dependencies(config) ==
  /\ ~(config.extract_type = "attribute" /\ config.attribute_name = NoName)
  /\ ~(config.extract_type = "structured_list" /\ config.sub_selectors = <<>>)
  /\ ~(config.extract_type # "structured_list" /\ config.sub_selectors # <<>>)

\* Mutant of Validated: the rules of sub_selectors are taken as they are.
Validated_TopOnly(config) == validate_dependencies(config)

\* A CustomFieldConfig is constructed: the rules of its sub_selectors are constructed,
\* and so validated, before its own validator runs.
RECURSIVE Validated(_)
Validated(config) ==
  /\ \A k \in 1..Len(config.sub_selectors) : Validated(config.sub_selectors[k])
  /\ validate_dependencies(config)

\* DomainScrapeConfig(**raw_config) does not raise.
DomainScrapeConfig(c) ==
  \A i \in 1..Len(c.sources) :
    \A k \in 1..Len(c.sources[i].selectors.custom_fields) :
      Validated(c.sources[i].selectors.custom_fields[k])

\* Mutant of load_config: a file that fails validation is handed on as a configuration.
load_config_Unvalidated(c) ==
  IF c.load \in {"ok", "invalid"} THEN "config"
  ELSE IF c.load = "not_found" THEN "none"
  ELSE "raised"

\* load_config's return value: the configuration, or None ("none") when it caught the
\* error, or the exception it lets through ("raised").
load_config(c) ==
  IF c.load = "ok" THEN (IF DomainScrapeConfig(c) THEN "config" ELSE "none")
  ELSE IF c.load \in {"not_found", "invalid"} THEN "none"
  ELSE "raised"

\* ------------------------------------------------------------- run_pipeline
Error(kind, url) == [kind |-> kind, url |-> url]
Event(ev, src, url, res) == [ev |-> ev, src |-> src, url |-> url, res |-> res]

\* What the pipeline holds around a progress report: its metrics and the calls made to
\* the callback so far.
Here == [metrics |-> metrics, progress |-> progress]

\* The callback ScrapeRunner.run hands in raises UserCancelledError once the runner has
\* been interrupted, and emits the progress signal otherwise.
CallbackRaises == is_interrupted

\* Mutant of update_progress: what the callback raises is recorded in metrics.errors.
update_progress_Records(st, msg, i) ==
  IF progress_callback = "none" THEN st
  ELSE [metrics |-> IF CallbackRaises
                    THEN [st.metrics EXCEPT !.errors = Append(@, Error("callback", ""))]
                    ELSE st.metrics,
        progress |-> Append(st.progress, [msg |-> msg, src |-> i, raised |-> CallbackRaises])]

\* update_progress(msg, percent): the callback, when there is one, is called; what it
\* raises is caught and logged, so that nothing but the call itself is left of it.
update_progress(st, msg, i) ==
  IF progress_callback = "none" THEN st
  ELSE [metrics |-> st.metrics,
        progress |-> Append(st.progress, [msg |-> msg, src |-> i, raised |-> CallbackRaises])]

Init ==
  /\ FieldIdle
  /\ pc = "start"
  /\ num_workers = MAX_CONCURRENT_FETCHERS
  /\ PoolFresh
  /\ cfg \in Configs
  /\ src_i = 0
  /\ shutdowns = 0
  /\ fetched_items = <<>>
  /\ item_i = 0
  /\ parsed_item = NoParsed
  /\ all_extracted_items = <<>>
  /\ metrics = NoMetrics
  /\ returned = NotReturned
  /\ history = <<>>
  /\ RunIdle
  /\ StoreIdle
  /\ GuiIdle

Return(items, m) == [done |-> TRUE, items |-> items, metrics |-> m]

\* run_pipeline up to the loop over the sources: the configuration is loaded, and either
\* the run ends there or the FetcherPool and the ContentRouter are created.
LoadConfig ==
  /\ pc = "start"
  /\ LET loaded == load_config(cfg)
         st == update_progress(Here, "loading", 0) IN
       IF loaded = "config"
       THEN /\ pc' = "sources"
            /\ src_i' = 1
            /\ metrics' = st.metrics
            /\ progress' = st.progress
            /\ UNCHANGED returned
       ELSE LET kind == IF loaded = "none" THEN "config" ELSE "critical"
                failed == [st EXCEPT !.metrics.errors = Append(@, Error(kind, ""))]
                end == update_progress(failed, "error", 0)
            IN /\ metrics' = end.metrics
               /\ progress' = end.progress
               /\ returned' = Return(<<>>, end.metrics)
               /\ pc' = "done"
               /\ UNCHANGED src_i
  /\ UNCHANGED <<num_workers, futs, yielded, results, log, fetch_ret>>
  /\ UNCHANGED <<cfg, shutdowns, fetched_items, item_i, parsed_item, all_extracted_items,
                 history>>
  /\ UNCHANGED fieldVars
  /\ UNCHANGED <<progress_callback, is_interrupted, signal, html_content>>
  /\ UNCHANGED storeVars
  /\ UNCHANGED guiVars

InLoop == pc = "sources" /\ src_i <= Len(cfg.sources)

\* A source without seeds: `continue`.
SkipSource ==
  /\ InLoop
  /\ cfg.sources[src_i].seeds = <<>>
  /\ LET st == update_progress(Here, "source", src_i) IN
       /\ metrics' = st.metrics
       /\ progress' = st.progress
  /\ src_i' = src_i + 1
  /\ UNCHANGED <<pc, num_workers, futs, yielded, results, log, fetch_ret>>
  /\ UNCHANGED <<cfg, shutdowns, fetched_items, item_i, parsed_item, all_extracted_items,
                 returned, history>>
  /\ UNCHANGED fieldVars
  /\ UNCHANGED <<progress_callback, is_interrupted, signal, html_content>>
  /\ UNCHANGED storeVars
  /\ UNCHANGED guiVars

\* fetcher.fetch_all(fetch_tasks) is entered: one task per seed is submitted.
StartFetch ==
  /\ InLoop
  /\ cfg.sources[src_i].seeds # <<>>
  /\ LET st == update_progress(update_progress(Here, "source", src_i), "fetching", src_i) IN
       /\ metrics' = st.metrics
       /\ progress' = st.progress
  /\ futs' = SubmitAll(cfg.sources[src_i].seeds)
  /\ yielded' = {}
  /\ results' = <<>>
  /\ pc' = "fetch_all"
  /\ UNCHANGED <<num_workers, log, fetch_ret>>
  /\ UNCHANGED <<cfg, src_i, shutdowns, fetched_items, item_i, parsed_item,
                 all_extracted_items, returned, history>>
  /\ UNCHANGED fieldVars
  /\ UNCHANGED <<progress_callback, is_interrupted, signal, html_content>>
  /\ UNCHANGED storeVars
  /\ UNCHANGED guiVars

\* Mutant of CountFetched: the URLs handed to fetch_all are counted.
CountFetched_Tasks(st, fetched) == [st EXCEPT !.metrics.urls_fetched = @ + Len(futs)]

\* metrics['urls_fetched'] += len(fetched_items)
CountFetched(st, fetched) == [st EXCEPT !.metrics.urls_fetched = @ + Len(fetched)]

\* fetch_all returns to run_pipeline: urls_fetched grows by the pages fetched.
Fetched ==
  /\ pc = "fetch_all"
  /\ src_i >= 1
  /\ AllYielded
  /\ fetched_items' = results
  /\ LET counted == CountFetched(Here, results)
         st == update_progress(counted, "parsing", src_i) IN
       /\ metrics' = st.metrics
       /\ progress' = st.progress
  /\ item_i' = 1
  /\ history' = history \o [i \in 1..Len(futs) |->
                              Event("fetch", src_i, futs[i].url, futs[i].outcome)]
  /\ pc' = "parse"
  /\ UNCHANGED <<num_workers, futs, yielded, results, log, fetch_ret>>
  /\ UNCHANGED <<cfg, src_i, shutdowns, parsed_item, all_extracted_items, returned>>
  /\ UNCHANGED fieldVars
  /\ UNCHANGED <<progress_callback, is_interrupted, signal, html_content>>
  /\ UNCHANGED storeVars
  /\ UNCHANGED guiVars

StructuredDataItem(parsed, fetched_item) ==
  [source_url |-> fetched_item.source_url, title |-> parsed.title,
   structured_data |-> parsed.custom_fields,
   unstructured_text |-> parsed.main_text_content]

\* `if parsed_item and parsed_item.custom_fields`: a ParsedItem whose dict has a key.
Emits(parsed) == ~parsed.raised /\ ~parsed.none /\ parsed.custom_fields # <<>>

\* Mutant of ParseItem: no try around the body, so an exception of route_and_parse leaves
\* both loops for the handler of the fetching phase.
ParseItem_Aborts ==
  /\ pc = "parse"
  /\ item_i <= Len(fetched_items)
  /\ LET fetched_item == fetched_items[item_i]
         parsed == route_and_parse(fetched_item, cfg.sources[src_i])
         emit == Emits(parsed)
     IN /\ parsed_item' = parsed
        /\ all_extracted_items' =
             IF emit
             THEN Append(all_extracted_items, StructuredDataItem(parsed, fetched_item))
             ELSE all_extracted_items
        /\ metrics' = IF parsed.raised
                      THEN [metrics EXCEPT !.errors =
                              Append(@, Error("fetch", fetched_item.source_url))]
                      ELSE metrics
        /\ history' = Append(history,
             Event("parse", src_i, fetched_item.source_url,
                   IF parsed.raised THEN "error" ELSE IF emit THEN "item" ELSE "no_item"))
        /\ IF parsed.raised
           THEN pc' = "sources" /\ src_i' = Len(cfg.sources) + 1 /\ UNCHANGED item_i
           ELSE item_i' = item_i + 1 /\ UNCHANGED <<pc, src_i>>
  /\ UNCHANGED <<num_workers, futs, yielded, results, log, fetch_ret>>
  /\ UNCHANGED <<cfg, shutdowns, fetched_items, returned>>
  /\ UNCHANGED fieldVars
  /\ UNCHANGED runVars
  /\ UNCHANGED storeVars
  /\ UNCHANGED guiVars

\* One pass of the loop over fetched_items.
ParseItem ==
  /\ pc = "parse"
  /\ item_i <= Len(fetched_items)
  /\ LET fetched_item == fetched_items[item_i]
         parsed == route_and_parse(fetched_item, cfg.sources[src_i])
         emit == Emits(parsed)
     IN /\ parsed_item' = parsed
        /\ all_extracted_items' =
             IF emit
             THEN Append(all_extracted_items, StructuredDataItem(parsed, fetched_item))
             ELSE all_extracted_items
        /\ metrics' = IF parsed.raised
                      THEN [metrics EXCEPT !.errors =
                              Append(@, Error("parse", fetched_item.source_url))]
                      ELSE metrics
        /\ history' = Append(history,
             Event("parse", src_i, fetched_item.source_url,
                   IF parsed.raised THEN "error" ELSE IF emit THEN "item" ELSE "no_item"))
  /\ item_i' = item_i + 1
  /\ UNCHANGED <<pc, num_workers, futs, yielded, results, log, fetch_ret>>
  /\ UNCHANGED <<cfg, src_i, shutdowns, fetched_items, returned>>
  /\ UNCHANGED fieldVars
  /\ UNCHANGED runVars
  /\ UNCHANGED storeVars
  /\ UNCHANGED guiVars

\* The loop over fetched_items is exhausted: on to the next source.
NextSource ==
  /\ pc = "parse"
  /\ item_i > Len(fetched_items)
  /\ src_i' = src_i + 1
  /\ pc' = "sources"
  /\ UNCHANGED <<num_workers, futs, yielded, results, log, fetch_ret>>
  /\ UNCHANGED <<cfg, shutdowns, fetched_items, item_i, parsed_item, all_extracted_items,
                 metrics, returned, history>>
  /\ UNCHANGED fieldVars
  /\ UNCHANGED runVars
  /\ UNCHANGED storeVars
  /\ UNCHANGED guiVars

\* Mutant of ShutdownReturns: executor.shutdown(wait=False).
ShutdownReturns_NoWait == TRUE

\* FetcherPool.shutdown: executor.shutdown(wait=True) returns when no work item is
\* queued or running any more.
ShutdownReturns == Pending = {} /\ Running = {}

\* The loop over the sources is left: finally fetcher.shutdown(), then items_extracted
\* is set and the pair is returned.
Finish ==
  /\ pc = "sources"
  /\ src_i > Len(cfg.sources)
  /\ ShutdownReturns
  /\ shutdowns' = shutdowns + 1
  /\ LET counted == [Here EXCEPT !.metrics.items_extracted = Len(all_extracted_items)]
         st == update_progress(counted, "finished", 0) IN
       /\ metrics' = st.metrics
       /\ progress' = st.progress
       /\ returned' = Return(all_extracted_items, st.metrics)
  /\ pc' = "done"
  /\ UNCHANGED <<num_workers, futs, yielded, results, log, fetch_ret>>
  /\ UNCHANGED <<cfg, src_i, fetched_items, item_i, parsed_item, all_extracted_items,
                 history>>
  /\ UNCHANGED fieldVars
  /\ UNCHANGED <<progress_callback, is_interrupted, signal, html_content>>
  /\ UNCHANGED storeVars
  /\ UNCHANGED guiVars

Next ==
  \/ LoadConfig
  \/ SkipSource
  \/ StartFetch
  \/ WorkerStart
  \/ WorkerFinish
  \/ Collect
  \/ Fetched
  \/ ParseItem
  \/ NextSource
  \/ Finish

Spec == Init /\ [][Next]_vars

\* ------------------------------------------- run_pipeline on any rule tree
\* Rules as a configuration file can state them, those that validate_dependencies
\* rejects among them, at the top level and below it.
NoAttributeName == Rule("link", "td", "attribute", NoName, FALSE, <<>>)
NoSubSelectors == Rule("rows", "tr", "structured_list", NoName, FALSE, <<>>)
TextWithSubs == Rule("cell", "td", "text", NoName, FALSE, NameScore)
HtmlWithSubs == Rule("cell", "td", "html", NoName, TRUE, <<Heading>>)
Link == Rule("link", "td", "attribute", "href", FALSE, <<>>)
Nested(child) == Rule("table_data", "tr", "structured_list", NoName, FALSE, <<NameScore[1], child>>)

StatedRules ==
  { Heading, Link, TableData,
    NoAttributeName, NoSubSelectors, TextWithSubs, HtmlWithSubs,
    Nested(Link), Nested(NoAttributeName), Nested(NoSubSelectors), Nested(TextWithSubs),
    Nested(Nested(NoAttributeName)), Nested(Nested(TextWithSubs)) }

RuleConfigs ==
  {[load |-> "ok", sources |-> <<Source("first", seeds, fields)>>] :
     seeds \in {<<>>, <<"u1">>, <<"u1", "u2">>},
     fields \in {<<r>> : r \in StatedRules} \cup {<<Heading, r>> : r \in StatedRules}}

ConfigInit ==
  /\ FieldIdle
  /\ pc = "start"
  /\ num_workers = MAX_CONCURRENT_FETCHERS
  /\ PoolFresh
  /\ cfg \in RuleConfigs
  /\ src_i = 0
  /\ shutdowns = 0
  /\ fetched_items = <<>>
  /\ item_i = 0
  /\ parsed_item = NoParsed
  /\ all_extracted_items = <<>>
  /\ metrics = NoMetrics
  /\ returned = NotReturned
  /\ history = <<>>
  /\ RunIdle
  /\ StoreIdle
  /\ GuiIdle

SpecConfig == ConfigInit /\ [][Next]_vars

\* ----------------------------------------------------- run_pipeline_on_html
MIN_HTML_LENGTH == 100

\* The HTML handed in: size is len(html_content.strip()), page what it parses to.
Html(size, page) == [size |-> size, page |-> page]
HtmlInputs ==
  {Html(0, EmptyPage), Html(50, TablePage)}
  \cup {Html(200, page) : page \in {TablePage, BlankPage, GapPage}}

HtmlMetrics == [urls_fetched |-> 1, items_extracted |-> 0, errors |-> <<>>]

\* Mutant of HtmlSource: the last source of the configuration is used.
HtmlSource_Last(c) == c.sources[Len(c.sources)]

\* The source the HTML is extracted against.
HtmlSource(c) == c.sources[1]

\* The FetchedItem made of the HTML: the first seed of the source or the dummy URL, and
\* the title "Browser Content".
HtmlFetchedItem(source) ==
  [task |-> 0,
   source_url |-> IF source.seeds # <<>> THEN source.seeds[1] ELSE "example",
   content |-> html_content.page,
   title |-> Str(<<"B">>)]

HtmlInit ==
  /\ FieldIdle
  /\ pc = "html_start"
  /\ num_workers = MAX_CONCURRENT_FETCHERS
  /\ PoolFresh
  /\ cfg \in Configs
  /\ src_i = 0
  /\ shutdowns = 0
  /\ fetched_items = <<>>
  /\ item_i = 0
  /\ parsed_item = NoParsed
  /\ all_extracted_items = <<>>
  /\ metrics = HtmlMetrics
  /\ returned = NotReturned
  /\ history = <<>>
  /\ progress_callback = "none"
  /\ is_interrupted = FALSE
  /\ progress = <<>>
  /\ signal = ""
  /\ html_content \in HtmlInputs
  /\ StoreIdle
  /\ GuiIdle

\* run_pipeline_on_html up to the validation of the HTML: the configuration is loaded.
HtmlLoadConfig ==
  /\ pc = "html_start"
  /\ LET loaded == load_config(cfg)
         st == update_progress(Here, "loading", 0) IN
       IF loaded = "config"
       THEN /\ pc' = "html_validate"
            /\ metrics' = st.metrics
            /\ progress' = st.progress
            /\ UNCHANGED returned
       ELSE LET kind == IF loaded = "none" THEN "config" ELSE "critical"
                failed == [st EXCEPT !.metrics.errors = Append(@, Error(kind, ""))]
                end == update_progress(failed, "error", 0)
            IN /\ metrics' = end.metrics
               /\ progress' = end.progress
               /\ returned' = Return(<<>>, end.metrics)
               /\ pc' = "done"
  /\ UNCHANGED fetchVarsButPc
  /\ UNCHANGED <<cfg, src_i, shutdowns, fetched_items, item_i, parsed_item,
                 all_extracted_items, history>>
  /\ UNCHANGED fieldVars
  /\ UNCHANGED <<progress_callback, is_interrupted, signal, html_content>>
  /\ UNCHANGED storeVars
  /\ UNCHANGED guiVars

\* The HTML and the sources are validated; the run ends here when the HTML is empty or
\* shorter than 100 characters or when the configuration has no source, and otherwise
\* the FetchedItem is made of the HTML.
HtmlValidate ==
  /\ pc = "html_validate"
  /\ LET st == update_progress(Here, "validating", 0)
         kind == IF html_content.size < MIN_HTML_LENGTH THEN "html"
                 ELSE IF cfg.sources = <<>> THEN "no_sources"
                 ELSE "" IN
       IF kind # ""
       THEN LET failed == [st EXCEPT !.metrics.errors = Append(@, Error(kind, ""))]
                end == update_progress(failed, "error", 0)
            IN /\ metrics' = end.metrics
               /\ progress' = end.progress
               /\ returned' = Return(<<>>, end.metrics)
               /\ pc' = "done"
               /\ UNCHANGED <<src_i, fetched_items, item_i>>
       ELSE LET end == update_progress(update_progress(st, "creating", 1), "parsing", 1)
            IN /\ metrics' = end.metrics
               /\ progress' = end.progress
               /\ src_i' = 1
               /\ fetched_items' = <<HtmlFetchedItem(HtmlSource(cfg))>>
               /\ item_i' = 1
               /\ pc' = "html_parse"
               /\ UNCHANGED returned
  /\ UNCHANGED fetchVarsButPc
  /\ UNCHANGED <<cfg, shutdowns, parsed_item, all_extracted_items, history>>
  /\ UNCHANGED fieldVars
  /\ UNCHANGED <<progress_callback, is_interrupted, signal, html_content>>
  /\ UNCHANGED storeVars
  /\ UNCHANGED guiVars

\* route_and_parse on the one item, the StructuredDataItem when custom_fields is not
\* empty, items_extracted, and the return.
HtmlParse ==
  /\ pc = "html_parse"
  /\ \E fetched_item \in {fetched_items[1]} :
     \E parsed \in {route_and_parse(fetched_item, HtmlSource(cfg))} :
     \E emit \in {Emits(parsed)} :
     \E items \in {IF emit THEN <<StructuredDataItem(parsed, fetched_item)>> ELSE <<>>} :
     \E parsed_st \in {IF parsed.raised
                        THEN [Here EXCEPT !.metrics.errors =
                                Append(@, Error("html_parse", fetched_item.source_url))]
                        ELSE Here} :
     \E end \in {update_progress(
                    [parsed_st EXCEPT !.metrics.items_extracted = Len(items)],
                    "finished", 0)} :
        /\ parsed_item' = parsed
        /\ all_extracted_items' = items
        /\ history' = Append(history,
             Event("parse", 1, fetched_item.source_url,
                   IF parsed.raised THEN "error" ELSE IF emit THEN "item" ELSE "no_item"))
        /\ metrics' = end.metrics
        /\ progress' = end.progress
        /\ returned' = Return(items, end.metrics)
  /\ item_i' = 2
  /\ pc' = "done"
  /\ UNCHANGED fetchVarsButPc
  /\ UNCHANGED <<cfg, src_i, shutdowns, fetched_items>>
  /\ UNCHANGED fieldVars
  /\ UNCHANGED <<progress_callback, is_interrupted, signal, html_content>>
  /\ UNCHANGED storeVars
  /\ UNCHANGED guiVars

HtmlNext == HtmlLoadConfig \/ HtmlValidate \/ HtmlParse

SpecHtml == HtmlInit /\ [][HtmlNext]_vars

\* ------------------------------------------------------------- ScrapeRunner
\* ScrapeRunner.run calls one of the two pipelines with its progress_callback and emits
\* `finished` afterwards unless it has been interrupted. Neither pipeline lets an
\* exception out, so the two except clauses of run() are never entered.
RunnerHtmlInputs == {NoHtml, Html(50, TablePage), Html(200, TablePage)}

\* The configurations the runner is started on: those of Configs with the table rules
\* and seed lists <<>>, <<u1>> or <<u1, u2>>.
RunnerConfigs ==
  {c \in Configs :
     /\ c.load \in {"ok", "invalid", "not_found", "crash"}
     /\ \A k \in 1..Len(c.sources) :
          /\ c.sources[k].seeds \in {<<>>, <<"u1">>, <<"u1", "u2">>}
          /\ c.sources[k].selectors.custom_fields
               \in {<<Heading, TableData>>, <<BrokenTable, Heading>>}}

RunnerInit ==
  /\ FieldIdle
  /\ pc = "runner"
  /\ num_workers = MAX_CONCURRENT_FETCHERS
  /\ PoolFresh
  /\ cfg \in RunnerConfigs
  /\ src_i = 0
  /\ shutdowns = 0
  /\ fetched_items = <<>>
  /\ item_i = 0
  /\ parsed_item = NoParsed
  /\ all_extracted_items = <<>>
  /\ metrics = NoMetrics
  /\ returned = NotReturned
  /\ history = <<>>
  /\ progress_callback = "runner"
  /\ is_interrupted = FALSE
  /\ progress = <<>>
  /\ signal = ""
  /\ html_content \in RunnerHtmlInputs
  /\ StoreIdle
  /\ GuiIdle

\* run() up to the call of the pipeline: run_pipeline_on_html when html_content is set,
\* run_pipeline otherwise.
RunStart ==
  /\ pc = "runner"
  /\ IF html_content # NoHtml
     THEN pc' = "html_start" /\ metrics' = HtmlMetrics
     ELSE pc' = "start" /\ metrics' = NoMetrics
  /\ UNCHANGED fetchVarsButPc
  /\ UNCHANGED <<cfg, src_i, shutdowns, fetched_items, item_i, parsed_item,
                 all_extracted_items, returned, history>>
  /\ UNCHANGED fieldVars
  /\ UNCHANGED runVars
  /\ UNCHANGED storeVars
  /\ UNCHANGED guiVars

\* ScrapeRunner.request_interruption, called from the GUI thread at any moment.
RequestInterruption ==
  /\ pc \notin {"runner", "ended", "gui_idle", "initiate"}
  /\ ~is_interrupted
  /\ is_interrupted' = TRUE
  /\ progress' = Append(progress, [msg |-> "interrupt", src |-> 0, raised |-> FALSE])
  /\ UNCHANGED fetchVars
  /\ UNCHANGED pipeVars
  /\ UNCHANGED fieldVars
  /\ UNCHANGED <<progress_callback, signal, html_content>>
  /\ UNCHANGED storeVars
  /\ UNCHANGED guiVars

\* The pipeline has returned: `if not self._is_interrupted: self.finished.emit("success")`.
RunEnd ==
  /\ pc = "done"
  /\ signal' = IF ~is_interrupted THEN "success" ELSE ""
  /\ pc' = "ended"
  /\ UNCHANGED fetchVarsButPc
  /\ UNCHANGED pipeVars
  /\ UNCHANGED fieldVars
  /\ UNCHANGED <<progress_callback, is_interrupted, progress, html_content>>
  /\ UNCHANGED storeVars
  /\ UNCHANGED guiVars

RunnerNext ==
  \/ RunStart
  \/ RequestInterruption
  \/ Next
  \/ HtmlNext
  \/ RunEnd

SpecRunner == RunnerInit /\ [][RunnerNext]_vars

\* ------------------------------------------- a failing submit in fetch_all
\* executor.submit raises in the first line of fetch_all (RuntimeError, "can't start new
\* thread"): the k tasks submitted before it stay queued or running on the workers,
\* fetch_all is left without a result, and the except clause of the fetching phase
\* records the error and leaves the loop over the sources for the finally clause.
SubmitFails ==
  /\ InLoop
  /\ cfg.sources[src_i].seeds # <<>>
  /\ \E k \in 0..(Len(cfg.sources[src_i].seeds) - 1) :
       futs' = SubmitAll(SubSeq(cfg.sources[src_i].seeds, 1, k))
  /\ yielded' = {}
  /\ results' = <<>>
  /\ LET st == update_progress(update_progress(Here, "source", src_i), "fetching", src_i) IN
       /\ metrics' = [st.metrics EXCEPT !.errors = Append(@, Error("fetch", ""))]
       /\ progress' = st.progress
  /\ src_i' = Len(cfg.sources) + 1
  /\ UNCHANGED <<pc, num_workers, log, fetch_ret>>
  /\ UNCHANGED <<cfg, shutdowns, fetched_items, item_i, parsed_item, all_extracted_items,
                 returned, history>>
  /\ UNCHANGED fieldVars
  /\ UNCHANGED <<progress_callback, is_interrupted, signal, html_content>>
  /\ UNCHANGED storeVars
  /\ UNCHANGED guiVars

\* ----------------------- the pipelines with title and main-content selectors
SelectorSource(title, main_content, seeds) ==
  [name |-> "first", seeds |-> seeds,
   selectors |-> [title |-> title, main_content |-> main_content,
                  custom_fields |-> <<Heading, TableData>>]]

SelectorConfigs ==
  {[load |-> "ok", sources |-> <<SelectorSource(title, main_content, seeds)>>] :
     title \in {NoName, "th", "td:nth-of-type(2)"},
     main_content \in {NoName, "td", "th", InvalidSelector},
     seeds \in {<<>>, <<"u1">>, <<"u2", "u5">>, <<"u5", "u1">>}}
  \cup {[load |-> "invalid", sources |-> <<>>]}

SelectorInit ==
  /\ FieldIdle
  /\ pc = "runner"
  /\ num_workers = MAX_CONCURRENT_FETCHERS
  /\ PoolFresh
  /\ cfg \in SelectorConfigs
  /\ src_i = 0
  /\ shutdowns = 0
  /\ fetched_items = <<>>
  /\ item_i = 0
  /\ parsed_item = NoParsed
  /\ all_extracted_items = <<>>
  /\ metrics = NoMetrics
  /\ returned = NotReturned
  /\ history = <<>>
  /\ progress_callback = "runner"
  /\ is_interrupted = FALSE
  /\ progress = <<>>
  /\ signal = ""
  /\ html_content \in {NoHtml, Html(200, TablePage), Html(200, TitledPage)}
  /\ StoreIdle
  /\ GuiIdle

SpecSelectors == SelectorInit /\ [][RunnerNext]_vars

ExecutorNext == RunnerNext \/ SubmitFails

SpecExecutor == RunnerInit /\ [][ExecutorNext]_vars

\* --------------------------------------------------------- DatabaseInserter
MaxCalls == 2
MaxDays == 2

\* A row map of a scraped table, as a value in a list.
Dict(d) == [t |-> "dict", d |-> d]
Num(s) == [t |-> "num", s |-> s]
IntVal(i) == [t |-> "int", i |-> i]
Entry(k, v) == [key |-> k, val |-> v]

Letters == {"A", "B"}
NumChars == {"1", ".", "-"}

\* float(s) succeeds: an optional minus sign and digits (the palette has no "." text).
IsFloat(s) ==
  LET digits == IF s # <<>> /\ Head(s) = "-" THEN Tail(s) ELSE s IN
  digits # <<>> /\ \A i \in 1..Len(digits) : digits[i] = "1"

\* safe_convert_number(val, default)
safe_convert_number(val, default) ==
  IF val = None \/ val = Str(<<>>) THEN default
  ELSE IF val.t # "str" THEN default
  ELSE LET cleaned == SelectSeq(val.s, LAMBDA c : c \in NumChars) IN
       IF cleaned # <<>> /\ cleaned # <<"-">>
       THEN (IF IsFloat(cleaned) THEN Num(cleaned) ELSE default)
       ELSE (IF IsFloat(Strip(val.s)) THEN Num(Strip(val.s)) ELSE default)

\* The candidate fields for the player's name, in their order.
NameFields == <<"player", "player_name", "elorank", "name">>

\* The first candidate field that is present with a truthy value: str(value).strip().
RECURSIVE NamedPlayer(_, _)
NamedPlayer(row, k) ==
  IF k > Len(NameFields) THEN None
  ELSE IF NameFields[k] \in DictKeys(row) /\ Truthy(DictGet(row, NameFields[k]))
       THEN Str(Strip(DictGet(row, NameFields[k]).s))
       ELSE NamedPlayer(row, k + 1)

\* The first value that is a string of more than one character with a letter in it.
RECURSIVE GuessedPlayer(_, _)
GuessedPlayer(row, i) ==
  IF i > Len(row) THEN None
  ELSE LET v == row[i].val IN
       IF v.t = "str" /\ Len(v.s) > 1 /\ (\E c \in 1..Len(v.s) : v.s[c] \in Letters)
       THEN Str(Strip(v.s))
       ELSE GuessedPlayer(row, i + 1)

\* player_name as the row loop settles it; the row is skipped when it is not truthy.
PlayerName(row) ==
  IF Truthy(NamedPlayer(row, 1)) THEN NamedPlayer(row, 1) ELSE GuessedPlayer(row, 1)

\* Mutant of get_or_create_player: the player is inserted without the SELECT.
get_or_create_player_NoSelect(db, player_name) ==
  [id |-> Len(db.players) + 1,
   db |-> [db EXCEPT !.players = Append(@, player_name)],
   created |-> TRUE]

\* get_or_create_player on the tables db: the id of the player of that name, and the
\* tables with the new player when there was none (the id is the row's position).
get_or_create_player(db, player_name) ==
  LET found == {i \in 1..Len(db.players) : db.players[i] = player_name} IN
  IF found # {}
  THEN [id |-> SetMin(found), db |-> db, created |-> FALSE]
  ELSE [id |-> Len(db.players) + 1,
        db |-> [db EXCEPT !.players = Append(@, player_name)],
        created |-> TRUE]

\* field_mapping and the conversion of each destination column; three of its thirteen
\* entries stand for the ranks, the numbers and the texts.
FieldMapping ==
  << [from |-> "elorank", to |-> "elo_rank", kind |-> "rank"],
     [from |-> "elo", to |-> "elo_rating", kind |-> "number"],
     [from |-> "peakmonth", to |-> "peak_month", kind |-> "text"] >>

Converted(value, kind) ==
  CASE kind = "number" -> safe_convert_number(value, None)
    [] kind = "rank" -> safe_convert_number(value, Num(<<"0">>))
    [] OTHER -> IF Truthy(value) THEN value ELSE None

RECURSIVE ApplyMapping(_, _, _)
ApplyMapping(data, row, k) ==
  IF k > Len(FieldMapping) THEN data
  ELSE IF FieldMapping[k].from \in DictKeys(row)
       THEN ApplyMapping(DictSet(data, FieldMapping[k].to,
                                 Converted(DictGet(row, FieldMapping[k].from),
                                           FieldMapping[k].kind)),
                         row, k + 1)
       ELSE ApplyMapping(data, row, k + 1)

\* data_to_insert: the five basic columns, the mapped ones, the None values filtered out.
DataToInsert(row, player_id, player_name, day) ==
  LET basic == << Entry("player_id", IntVal(player_id)), Entry("player_name", Str(player_name)),
                  Entry("stat_date", IntVal(day)), Entry("surface", Str(<<"all">>)),
                  Entry("timeframe", Str(<<"current">>)) >>
  IN SelectSeq(ApplyMapping(basic, row, 1), LAMBDA e : e.val # None)

\* `if len(data_to_insert) <= 4`
NotEnoughData(data) == Len(data) <= 4

\* UNIQUE(player_id, stat_date, surface, timeframe)
StatKey(data) ==
  <<DictGet(data, "player_id"), DictGet(data, "stat_date"),
    DictGet(data, "surface"), DictGet(data, "timeframe")>>

\* Mutant of InsertOrReplace: the table has no UNIQUE constraint.
InsertOrReplace_NoKey(stats, data) == Append(stats, data)

\* INSERT OR REPLACE INTO player_statistics: the row of the same key is deleted first.
InsertOrReplace(stats, data) ==
  Append(SelectSeq(stats, LAMBDA r : StatKey(r) # StatKey(data)), data)

\* The row list of an item: the first value of structured_data that is a non-empty list.
RECURSIVE MainDataList(_, _)
MainDataList(structured_data, i) ==
  IF i > Len(structured_data) THEN <<>>
  ELSE LET value == structured_data[i].val IN
       IF value.t = "list" /\ value.items # <<>> THEN value.items
       ELSE MainDataList(structured_data, i + 1)

\* One pass of the row loop on row_data, from the tables the connection sees (db) and
\* the committed ones: what both are afterwards, whether the row was written, the
\* commits made (get_or_create_player commits when it creates the player), and how the
\* pass ended, with the player's name and id once they are known.
ProcessRow(db, committed, row_data, day) ==
  LET skip == [conn |-> db, durable |-> committed, inserted |-> 0, commits |-> 0,
               res |-> "not_dict", player_name |-> None, player_id |-> 0] IN
  IF row_data.t # "dict" THEN skip
  ELSE LET player_name == PlayerName(row_data.d) IN
       IF ~Truthy(player_name) THEN [skip EXCEPT !.res = "no_name"]
       ELSE LET player == get_or_create_player(db, player_name.s)
                after == IF player.created THEN player.db ELSE committed
                made == IF player.created THEN 1 ELSE 0
                data == DataToInsert(row_data.d, player.id, player_name.s, day)
            IN IF NotEnoughData(data)
               THEN [conn |-> player.db, durable |-> after, inserted |-> 0, commits |-> made,
                     res |-> "not_enough", player_name |-> player_name,
                     player_id |-> player.id]
               ELSE [conn |-> [player.db EXCEPT !.stats = InsertOrReplace(@, data)],
                     durable |-> after, inserted |-> 1, commits |-> made,
                     res |-> "inserted", player_name |-> player_name,
                     player_id |-> player.id]

\* The rows of the scraped tables.
RowA == Dict(<<Entry("player", Str(<<"A">>)), Entry("elo", Str(<<"1">>))>>)
RowA2 == Dict(<<Entry("player", Str(<<" ", "A">>)), Entry("elo", Str(<<"1", "1">>))>>)
RowB == Dict(<<Entry("name", Str(<<"B">>)), Entry("peakmonth", Str(<<"A", "1">>))>>)
RowAnon == Dict(<<Entry("elo", Str(<<"1">>))>>)
RowNameOnly == Dict(<<Entry("name", Str(<<"B">>))>>)
RowNulls == Dict(<<Entry("player", Str(<<"A">>)), Entry("elo", None),
                   Entry("peakmonth", Str(<<>>))>>)
RowGuess == Dict(<<Entry("country", Str(<<"A", "B">>)), Entry("elo", Str(<<"1">>))>>)
RowShort == Dict(<<Entry("country", Str(<<"A">>)), Entry("elo", Str(<<"1">>))>>)
RowRank == Dict(<<Entry("elorank", Str(<<"1">>)), Entry("name", Str(<<"B">>))>>)
RowBlank == Dict(<<Entry("player", Str(<<" ">>)), Entry("name", Str(<<"B">>)),
                   Entry("elo", Str(<<"1">>))>>)

Item(url, structured_data) == [source_url |-> url, structured_data |-> structured_data]
TableItem == Item("u1", <<Entry("heading", Str(<<"T">>)),
                          Entry("table_data", List(<<RowA, RowAnon, RowB>>))>>)
AgainItem == Item("u2", <<Entry("table_data", List(<<RowA2>>))>>)
TagsItem == Item("u3", <<Entry("tags", List(<<Str(<<"A">>), Str(<<"B">>)>>)),
                         Entry("table_data", List(<<RowB>>))>>)
BareItem == Item("u4", <<Entry("heading", None), Entry("table_data", List(<<>>))>>)
SparseItem == Item("u5", <<Entry("table_data", List(<<RowNameOnly, RowNulls, RowA>>))>>)
GuessItem == Item("u6", <<Entry("table_data",
                                List(<<RowGuess, RowShort, RowRank, RowBlank>>))>>)

\* The item lists handed to insert_player_stats.
Batches ==
  { <<>>, <<TableItem>>, <<AgainItem>>, <<TableItem, AgainItem>>, <<BareItem, TableItem>>,
    <<TagsItem, AgainItem>>, <<SparseItem>>, <<GuessItem>> }

Call(items, day, before) ==
  [items |-> items, day |-> day, before |-> before, st |-> "running",
   returned |-> 0, rows |-> 0, log |-> <<>>]

StoreInit ==
  /\ FieldIdle
  /\ pc = "store_idle"
  /\ num_workers = MAX_CONCURRENT_FETCHERS
  /\ PoolFresh
  /\ PipeIdle
  /\ RunIdle
  /\ StoreIdle
  /\ GuiIdle

\* insert_player_stats(items) is called.
InsertCall ==
  /\ pc = "store_idle"
  /\ Len(calls) < MaxCalls
  /\ \E items \in Batches :
       /\ batch' = items
       /\ calls' = Append(calls, Call(items, today, durable))
  /\ pos' = [item |-> 1, row |-> 0]
  /\ total_inserted' = 0
  /\ commits' = 0
  /\ pc' = "insert"
  /\ UNCHANGED <<today, durable, conn>>
  /\ UNCHANGED fetchVarsButPc
  /\ UNCHANGED pipeVars
  /\ UNCHANGED fieldVars
  /\ UNCHANGED runVars
  /\ UNCHANGED guiVars

InItems == pc = "insert" /\ pos.item <= Len(batch)

\* The loop over the items reaches an item: its row list is looked for, and the item is
\* skipped when it has none.
SelectList ==
  /\ InItems
  /\ pos.row = 0
  /\ pos' = IF MainDataList(batch[pos.item].structured_data, 1) = <<>>
            THEN [item |-> pos.item + 1, row |-> 0]
            ELSE [item |-> pos.item, row |-> 1]
  /\ UNCHANGED <<today, durable, conn, batch, total_inserted, commits, calls>>
  /\ UNCHANGED fetchVars
  /\ UNCHANGED pipeVars
  /\ UNCHANGED fieldVars
  /\ UNCHANGED runVars
  /\ UNCHANGED guiVars

\* What a pass of the row loop leaves in the log: the row, how the pass ended, and the
\* player it was for.
Logged(p, res, player_name, player_id) ==
  [item |-> p.item, row |-> p.row, res |-> res, player_name |-> player_name,
   player_id |-> player_id]

\* The loops go on: the next row of the row list, or the next item after its last row.
AfterRow(p, main_data_list) ==
  IF p.row < Len(main_data_list)
  THEN [item |-> p.item, row |-> p.row + 1]
  ELSE [item |-> p.item + 1, row |-> 0]

\* One pass of the loop over the rows of the item's row list.
InsertRow ==
  /\ InItems
  /\ pos.row >= 1
  /\ \E main_data_list \in {MainDataList(batch[pos.item].structured_data, 1)} :
     \E done \in {ProcessRow(conn, durable, main_data_list[pos.row], today)} :
        /\ conn' = done.conn
        /\ durable' = done.durable
        /\ total_inserted' = total_inserted + done.inserted
        /\ commits' = commits + done.commits
        /\ calls' = [calls EXCEPT ![Len(calls)].log =
                        Append(@, Logged(pos, done.res, done.player_name, done.player_id))]
        /\ pos' = AfterRow(pos, main_data_list)
  /\ UNCHANGED <<today, batch>>
  /\ UNCHANGED fetchVars
  /\ UNCHANGED pipeVars
  /\ UNCHANGED fieldVars
  /\ UNCHANGED runVars
  /\ UNCHANGED guiVars

\* The loop over the items is exhausted: self.conn.commit() and return total_inserted.
InsertCommit ==
  /\ pc = "insert"
  /\ pos.item > Len(batch)
  /\ durable' = conn
  /\ commits' = commits + 1
  /\ calls' = [calls EXCEPT ![Len(calls)].st = "returned",
                            ![Len(calls)].returned = total_inserted,
                            ![Len(calls)].rows = Len(conn.stats)]
  /\ pc' = "store_idle"
  /\ UNCHANGED <<today, conn, batch, pos, total_inserted>>
  /\ UNCHANGED fetchVarsButPc
  /\ UNCHANGED pipeVars
  /\ UNCHANGED fieldVars
  /\ UNCHANGED runVars
  /\ UNCHANGED guiVars

\* The process is stopped in the middle of the call: what was not committed is rolled
\* back when the database is opened again.
Interrupt ==
  /\ pc = "insert"
  /\ conn' = durable
  /\ calls' = [calls EXCEPT ![Len(calls)].st = "interrupted",
                            ![Len(calls)].rows = Len(durable.stats)]
  /\ pc' = "store_idle"
  /\ UNCHANGED <<today, durable, batch, pos, total_inserted, commits>>
  /\ UNCHANGED fetchVarsButPc
  /\ UNCHANGED pipeVars
  /\ UNCHANGED fieldVars
  /\ UNCHANGED runVars
  /\ UNCHANGED guiVars

\* Midnight between two calls.
NextDay ==
  /\ pc = "store_idle"
  /\ today < MaxDays
  /\ today' = today + 1
  /\ UNCHANGED <<durable, conn, batch, pos, total_inserted, commits, calls>>
  /\ UNCHANGED fetchVars
  /\ UNCHANGED pipeVars
  /\ UNCHANGED fieldVars
  /\ UNCHANGED runVars
  /\ UNCHANGED guiVars

StoreNext == InsertCall \/ SelectList \/ InsertRow \/ InsertCommit \/ Interrupt \/ NextDay

SpecStore == StoreInit /\ [][StoreNext]_vars

\* The statements of a pass of the row loop that sqlite3 can fail: the SELECT of
\* get_or_create_player and the INSERT OR REPLACE of the statistics row.
RowFaults == {"select", "insert"}
MaxFaults == 2

RECURSIVE Faults(_)
Faults(cs) ==
  IF cs = <<>> THEN 0
  ELSE Cardinality({i \in 1..Len(Head(cs).log) : Head(cs).log[i].res = "error"})
       + Faults(Tail(cs))

\* Mutant of AfterRaise: the exception leaves both loops.
AfterRaise_Abort(p, main_data_list) == [item |-> Len(batch) + 1, row |-> 0]

\* `except Exception` is inside the row loop: the loops go on with the next row.
AfterRaise(p, main_data_list) == AfterRow(p, main_data_list)

\* A statement of the pass raises (sqlite3.Error): at the SELECT nothing has been done,
\* at the INSERT OR REPLACE the player has been looked up or created and committed. The
\* exception is caught and logged, and the row is not counted.
RowRaises ==
  /\ InItems
  /\ pos.row >= 1
  /\ Faults(calls) < MaxFaults
  /\ \E main_data_list \in {MainDataList(batch[pos.item].structured_data, 1)} :
     \E done \in {ProcessRow(conn, durable, main_data_list[pos.row], today)} :
     \E fault \in RowFaults :
        /\ done.res \in {"not_enough", "inserted"}
        /\ fault = "insert" => done.res = "inserted"
        /\ conn' = IF fault = "select" THEN conn
                   ELSE [conn EXCEPT !.players = done.conn.players]
        /\ durable' = IF fault = "select" THEN durable ELSE done.durable
        /\ commits' = IF fault = "select" THEN commits ELSE commits + done.commits
        /\ calls' = [calls EXCEPT ![Len(calls)].log =
                        Append(@, Logged(pos, "error", done.player_name,
                                         IF fault = "select" THEN 0 ELSE done.player_id))]
        /\ pos' = AfterRaise(pos, main_data_list)
  /\ UNCHANGED <<today, batch, total_inserted>>
  /\ UNCHANGED fetchVars
  /\ UNCHANGED pipeVars
  /\ UNCHANGED fieldVars
  /\ UNCHANGED runVars
  /\ UNCHANGED guiVars

SinkNext == InsertCall \/ SelectList \/ InsertRow \/ RowRaises \/ InsertCommit

SpecSink == StoreInit /\ [][SinkNext]_vars

\* =================================================================== claims
Count(seq, P(_)) == Cardinality({i \in 1..Len(seq) : P(seq[i])})

FetchEvents == {i \in 1..Len(history) : history[i].ev = "fetch"}
FailedFetches == {i \in FetchEvents : history[i].res # "ok"}
ParseEvents == {i \in 1..Len(history) : history[i].ev = "parse"}
ParseErrors == {i \in ParseEvents : history[i].res = "error"}
ParseItems == {i \in ParseEvents : history[i].res = "item"}

\* C1 (as claimed): when run_pipeline has returned, metrics.errors holds one entry per seed
\* URL whose fetch failed (beside the parse errors), urls_fetched counts the pages that
\* were fetched, and every fetched page went on to extraction.
C1_FailedFetchRecorded ==
  (returned.done /\ cfg.load = "ok") =>
    /\ Len(returned.metrics.errors) = Cardinality(FailedFetches) + Cardinality(ParseErrors)
    /\ returned.metrics.urls_fetched = Cardinality(FetchEvents \ FailedFetches)
    /\ Cardinality(ParseEvents) = Cardinality(FetchEvents \ FailedFetches)

\* C2: every task submitted to fetch_all is attempted once and never again, holds at most
\* one outcome while the call runs, and when fetch_all has returned every task is done and
\* has exactly one outcome: one FetchedItem in the returned list when its fetch succeeded,
\* one logged failure otherwise.
ResultsOf(i, list) == Count(list, LAMBDA r : r.task = i)
FailuresOf(i) == Count(log, LAMBDA e : e.task = i)

C2_OneOutcomePerTask ==
  /\ \A i \in 1..Len(futs) :
       /\ futs[i].attempts = (IF futs[i].st = "pending" THEN 0 ELSE 1)
       /\ ResultsOf(i, results) + FailuresOf(i) <= 1
       /\ (i \in yielded) => futs[i].st = "done"
  /\ pc = "returned" =>
       /\ Len(fetch_ret) + Len(log) = Len(futs)
       /\ \A i \in 1..Len(futs) :
            /\ futs[i].st = "done"
            /\ futs[i].attempts = 1
            /\ ResultsOf(i, fetch_ret) + FailuresOf(i) = 1
            /\ ResultsOf(i, fetch_ret) = 1 <=> futs[i].outcome = "ok"

\* C2 witness: a call of three tasks has returned, one failed, and the results are not in
\* submission order.
C2_Witness ==
  /\ pc = "returned"
  /\ Len(futs) = 3
  /\ Len(fetch_ret) = 2
  /\ fetch_ret[1].task > fetch_ret[2].task
  /\ Len(log) = 1

\* ------------------------------------------------- claims on field extraction
Called == f_rule # NoRule
LeafKinds == {"text", "attribute", "html"}
IsLeafCall == Called /\ f_rule.extract_type \in LeafKinds /\ f_rule.selector \in ValidSelectors
IsTableCall ==
  Called /\ f_rule.extract_type = "structured_list" /\ f_rule.selector \in ValidSelectors
FieldValue == DictGet(f_out.data, f_rule.name)
Matched == Select(f_doc, <<>>, f_rule.selector).elems

\* The extraction of one element as the specification words it: the trimmed text, the
\* named attribute's value or "" when the element lacks it, the serialized markup.
StatedExtraction(doc, p, rule) ==
  CASE rule.extract_type = "text" -> Str(GetText(doc, p))
    [] rule.extract_type = "attribute" ->
         (IF ElemGet(doc, p, rule.attribute_name) = None THEN Str(<<>>)
          ELSE ElemGet(doc, p, rule.attribute_name))
    [] OTHER -> Str(ElemStr(doc, p))

IsEmptyValue(v) == v = None \/ v = Str(<<>>) \/ v = List(<<>>)

\* C4 (as claimed): the value of a structured_list rule is the list, in document order, of
\* the maps of exactly those containers in which some child rule yields a value that is
\* not null, not "" and not [].
C4_EmptyContainerDropped ==
  IsTableCall =>
    /\ ~f_out.raised
    /\ FieldValue =
         List(SelectSeq([k \in 1..Len(Matched) |->
                           ItemData(f_doc, Matched[k], f_rule.sub_selectors, <<>>)],
                        LAMBDA d : \E i \in 1..Len(d) : ~IsEmptyValue(d[i].val)))

\* Row map `row` is what container c gives: its keys are `keys`, a child rule that matches
\* nothing in c has the value `missing` gives it, and every other value comes from
\* elements inside c. (Of two child rules with one name the later one decides.)
RowOf(row, c, keys, missing(_)) ==
  LET subs == f_rule.sub_selectors IN
  /\ Len(row) = keys
  /\ DictKeys(row) = {subs[k].name : k \in 1..Len(subs)}
  /\ \A k \in 1..Len(subs) :
       (\A j \in (k + 1)..Len(subs) : subs[j].name # subs[k].name) =>
         LET m == Select(f_doc, c, subs[k].selector)
             v == DictGet(row, subs[k].name)
             inside == {ElemValue(f_doc, m.elems[e], subs[k]) : e \in 1..Len(m.elems)}
         IN IF m.raised THEN v = None
            ELSE IF m.elems = <<>> THEN v = missing(subs[k])
            ELSE \/ IsEmptyValue(v)
                 \/ v.t = "str" /\ v \in inside
                 \/ v.t = "list" /\ \A e \in 1..Len(v.items) : v.items[e] \in inside

\* The rows are row maps of distinct containers, in document order.
RowsOf(rows, keys, missing(_)) ==
  /\ Len(rows) <= Len(Matched)
  /\ \E g \in [1..Len(rows) -> 1..Len(Matched)] :
       /\ \A a, b \in 1..Len(rows) : a < b => g[a] < g[b]
       /\ \A a \in 1..Len(rows) : RowOf(rows[a], Matched[g[a]], keys, missing)

DistinctNames == Cardinality({f_rule.sub_selectors[k].name : k \in 1..Len(f_rule.sub_selectors)})

C6_FirstMatchWins ==
  (IsLeafCall /\ ~f_rule.is_list) =>
    /\ ~f_out.raised
    /\ FieldValue = (IF Matched = <<>> THEN None
                     ELSE StatedExtraction(f_doc, Matched[1], f_rule))

\* C7: a text, attribute or html rule with is_list gives the list of the extractions of
\* all matching elements, in document order, without the empty ones; that is [] when
\* nothing matches or every extraction is empty, and nothing is raised.
C7_ListOfAllMatches ==
  (IsLeafCall /\ f_rule.is_list) =>
    /\ ~f_out.raised
    /\ FieldValue =
         List(SelectSeq([k \in 1..Len(Matched) |-> StatedExtraction(f_doc, Matched[k], f_rule)],
                        LAMBDA v : v # Str(<<>>)))

\* C7 witness: several elements match, some extractions are empty and were removed,
\* others were kept.
C7_Witness ==
  /\ IsLeafCall
  /\ f_rule.is_list
  /\ Len(Matched) >= 3
  /\ Len(FieldValue.items) >= 2
  /\ Len(FieldValue.items) < Len(Matched)

\* --------------------------------------------------- claims on run_pipeline
\* route_and_parse has just returned or raised for LastItem.
Parsed == pc = "parse" /\ item_i > 1
LastItem == fetched_items[item_i - 1]
LastSource == cfg.sources[src_i]
LastEvent == history[Len(history)]

BadFields(fields) == {k \in 1..Len(fields) : fields[k].selector \notin ValidSelectors}

RECURSIVE Without(_, _, _)
Without(fields, bad, k) ==
  IF k > Len(fields) THEN <<>>
  ELSE (IF k \in bad THEN <<>> ELSE <<fields[k]>>) \o Without(fields, bad, k + 1)

\* C3 (as claimed): when a source has a rule with an invalid selector, route_and_parse
\* still returns a record, the bad rule's field is null, and every other field has the
\* value it has when the source is used without the bad rule.
C3_FieldIsolation ==
  LET fields == LastSource.selectors.custom_fields
      bad == BadFields(fields)
      rest == [LastSource EXCEPT !.selectors.custom_fields = Without(fields, bad, 1)]
  IN (Parsed /\ bad # {} /\ ~LastItem.content.empty) =>
       /\ ~parsed_item.raised
       /\ ~parsed_item.none
       /\ \A k \in 1..Len(fields) :
            DictGet(parsed_item.custom_fields, fields[k].name) =
              (IF k \in bad THEN None
               ELSE DictGet(route_and_parse(LastItem, rest).custom_fields, fields[k].name))

\* Some custom field of the extraction carries a non-empty value.
CarriesValue(parsed) ==
  /\ ~parsed.raised
  /\ ~parsed.none
  /\ \E i \in 1..Len(parsed.custom_fields) : ~IsEmptyValue(parsed.custom_fields[i].val)

\* C8 (as claimed): a page gives a StructuredDataItem exactly when some custom field of its
\* extraction carries a non-empty value; the item's structured_data is then the extracted
\* custom_fields, and a page without such a field gives no item and no error.
C8_ItemIffNonEmptyField ==
  Parsed =>
    /\ LastEvent.res = "item" <=> CarriesValue(parsed_item)
    /\ LastEvent.res = "item" =>
         all_extracted_items[Len(all_extracted_items)].structured_data
           = parsed_item.custom_fields
    /\ (~parsed_item.raised /\ ~CarriesValue(parsed_item)) => LastEvent.res = "no_item"

ErrorUrls ==
  LET errs == SelectSeq(history, LAMBDA e : e.ev = "parse" /\ e.res = "error")
  IN [i \in 1..Len(errs) |-> errs[i].url]

\* C9: in a run whose configuration loaded, metrics.errors holds exactly one entry per
\* page whose extraction raised, in order, and the items are those of the pages that gave
\* one; when the run has returned, every source with seeds was fetched, every fetched page
\* was handed to route_and_parse, and all extracted items were returned.
C9_ParseErrorIsolated ==
  cfg.load = "ok" =>
    /\ [i \in 1..Len(metrics.errors) |-> metrics.errors[i].url] = ErrorUrls
    /\ \A i \in 1..Len(metrics.errors) : metrics.errors[i].kind = "parse"
    /\ Len(all_extracted_items) = Cardinality(ParseItems)
    /\ returned.done =>
         /\ \A k \in 1..Len(cfg.sources) :
              Cardinality({i \in FetchEvents : history[i].src = k})
                = Len(cfg.sources[k].seeds)
         /\ Cardinality(ParseEvents) = Cardinality(FetchEvents \ FailedFetches)
         /\ returned.items = all_extracted_items
         /\ returned.metrics.errors = metrics.errors

\* C9 witness: the run has returned; a page of the first source raised, a further page of
\* that source was processed after it, and the second source still gave an item.
C9_Witness ==
  /\ returned.done
  /\ Len(returned.metrics.errors) >= 1
  /\ Len(returned.items) >= 1
  /\ \E i, j, k \in ParseEvents :
       /\ i < j /\ j < k
       /\ history[i].src = 1 /\ history[i].res = "error"
       /\ history[j].src = 1
       /\ history[k].src = 2 /\ history[k].res = "item"

\* C10: when the configuration cannot be loaded or fails validation, no task is ever
\* submitted and no pool is shut down, and the run ends with an empty item list and one
\* entry in metrics.errors that reports the configuration failure.
C10_ConfigFailureAbortsRun ==
  cfg.load # "ok" =>
    /\ futs = <<>>
    /\ history = <<>>
    /\ shutdowns = 0
    /\ pc \in {"start", "done"}
    /\ pc = "done" =>
         /\ returned.done
         /\ returned.items = <<>>
         /\ returned.metrics.urls_fetched = 0
         /\ Len(returned.metrics.errors) = 1
         /\ returned.metrics.errors[1].kind =
              (IF cfg.load \in {"not_found", "invalid"} THEN "config" ELSE "critical")

\* C10 witness: a run on a configuration that fails validation has returned.
C10_Witness ==
  /\ cfg.load = "invalid"
  /\ returned.done
  /\ returned.metrics.errors # <<>>

\* ------------------------------------------- claims on the outcome of a run
\* C11 (as claimed): run_pipeline on a configuration that loads and declares no source
\* returns an empty item list and an entry in metrics.errors that reports it.
C11_ZeroSourcesFail ==
  (returned.done /\ cfg.load = "ok" /\ cfg.sources = <<>>) =>
    /\ returned.items = <<>>
    /\ returned.metrics.errors # <<>>

\* C12 (as claimed): when run_pipeline has returned after a failure of configuration
\* loading, of a fetch or of an extraction, the returned metrics.errors is not empty.
C12_FailureExplained ==
  (returned.done /\ (cfg.load # "ok" \/ FailedFetches # {} \/ ParseErrors # {})) =>
    returned.metrics.errors # <<>>

\* C17: run_pipeline_on_html submits no fetch task and creates no pool, calls
\* route_and_parse at most once, on the HTML handed in and against the first source of
\* the configuration, and returns at most one item, which is the one of that call.
C17_OnePageNoFetch ==
  /\ futs = <<>>
  /\ log = <<>>
  /\ shutdowns = 0
  /\ FetchEvents = {}
  /\ Cardinality(ParseEvents) <= 1
  /\ Len(all_extracted_items) <= 1
  /\ returned.done =>
       /\ Len(returned.items) <= 1
       /\ returned.items = all_extracted_items
       /\ (ParseEvents = {}) => returned.items = <<>>
       /\ (ParseEvents # {}) =>
            LET first == cfg.sources[1]
                item == HtmlFetchedItem(first)
                parsed == route_and_parse(item, first)
            IN /\ item.content = html_content.page
               /\ parsed_item = parsed
               /\ returned.items =
                    (IF Emits(parsed) THEN <<StructuredDataItem(parsed, item)>> ELSE <<>>)

\* C17 witness: a configuration of two sources, the first with several seeds, has given
\* one item from the HTML.
C17_Witness ==
  /\ returned.done
  /\ Len(cfg.sources) = 2
  /\ Len(cfg.sources[1].seeds) >= 2
  /\ cfg.sources[1].selectors.custom_fields # cfg.sources[2].selectors.custom_fields
  /\ Len(returned.items) = 1
  /\ ParseEvents # {}

\* ------------------------------------------------- claims on the ScrapeRunner
\* Reports at which the callback raised, and the requests for interruption.
RaisedReports == {i \in 1..Len(progress) : progress[i].raised}
Requests == {i \in 1..Len(progress) : progress[i].msg = "interrupt"}
Reports == {i \in 1..Len(progress) : progress[i].msg # "interrupt"}

\* What run_pipeline returns when no callback is given, for the fetch outcomes and the
\* order of the fetched pages that the history holds.
UrlItem(e) == [task |-> 0, source_url |-> e.url, content |-> PageOf(e.url), title |-> None]
UrlParsed(e) == route_and_parse(UrlItem(e), cfg.sources[e.src])
ExpectedOfUrls ==
  IF load_config(cfg) # "config"
  THEN Return(<<>>, [NoMetrics EXCEPT !.errors =
         <<Error(IF load_config(cfg) = "none" THEN "config" ELSE "critical", "")>>])
  ELSE LET parses == SelectSeq(history, LAMBDA e : e.ev = "parse")
           gave == SelectSeq(parses, LAMBDA e : Emits(UrlParsed(e)))
           failed == SelectSeq(parses, LAMBDA e : UrlParsed(e).raised)
           items == [i \in 1..Len(gave) |-> StructuredDataItem(UrlParsed(gave[i]), UrlItem(gave[i]))]
       IN Return(items,
                 [urls_fetched |-> Cardinality(FetchEvents \ FailedFetches),
                  items_extracted |-> Len(items),
                  errors |-> [i \in 1..Len(failed) |-> Error("parse", failed[i].url)]])

\* Every source with seeds was fetched and every fetched page was parsed.
AllWorkDone ==
  /\ \A k \in 1..Len(cfg.sources) :
       Cardinality({i \in FetchEvents : history[i].src = k}) = Len(cfg.sources[k].seeds)
  /\ Cardinality(ParseEvents) = Cardinality(FetchEvents \ FailedFetches)

\* What run_pipeline_on_html returns when no callback is given.
ExpectedOfHtml ==
  LET failure == IF load_config(cfg) = "none" THEN "config"
                 ELSE IF load_config(cfg) = "raised" THEN "critical"
                 ELSE IF html_content.size < MIN_HTML_LENGTH THEN "html"
                 ELSE IF cfg.sources = <<>> THEN "no_sources"
                 ELSE ""
  IN IF failure # ""
     THEN Return(<<>>, [HtmlMetrics EXCEPT !.errors = <<Error(failure, "")>>])
     ELSE LET item == HtmlFetchedItem(cfg.sources[1])
              parsed == route_and_parse(item, cfg.sources[1])
              items == IF Emits(parsed) THEN <<StructuredDataItem(parsed, item)>> ELSE <<>>
          IN Return(items,
                    [urls_fetched |-> 1,
                     items_extracted |-> Len(items),
                     errors |-> IF parsed.raised
                                THEN <<Error("html_parse", item.source_url)>> ELSE <<>>])

\* C13: an exception of the progress callback leaves no entry in metrics.errors and does
\* not end the run; when the pipeline has returned after the callback raised, it returns
\* the items and metrics it returns without a callback, with all the work done.
C13_CallbackErrorSwallowed ==
  /\ \A i \in 1..Len(metrics.errors) : metrics.errors[i].kind # "callback"
  /\ (returned.done /\ RaisedReports # {}) =>
       IF html_content # NoHtml
       THEN returned = ExpectedOfHtml
       ELSE /\ returned = ExpectedOfUrls
            /\ cfg.load = "ok" => AllWorkDone

\* C13 witness: the callback raised at the report of the first of two sources, and the
\* run went on to fetch the second source and returned an item.
C13_Witness ==
  /\ returned.done
  /\ html_content = NoHtml
  /\ Len(cfg.sources) = 2
  /\ \E i \in RaisedReports : progress[i].msg = "source" /\ progress[i].src = 1
  /\ \E i \in FetchEvents : history[i].src = 2
  /\ returned.items # <<>>

\* The reports that announce new work.
WorkReports == {"source", "fetching", "parsing", "validating", "creating"}

\* C14 (as claimed): once a progress report has met the requested cancellation, no
\* further work is announced or started, and no source is fetched after it.
C14_CancelStopsRun ==
  \A i \in RaisedReports :
    /\ \A j \in (i + 1)..Len(progress) : progress[j].msg \notin WorkReports
    /\ (progress[i].msg = "source" /\ progress[i].src = 2) =>
         \A e \in FetchEvents : history[e].src # 2

\* C15 (as claimed): a run during which cancellation was requested, before its last
\* progress report, ends with the error signal that carries the user-cancelled message.
C15_CancelledOutcome ==
  (pc = "ended" /\ \E r \in Requests : \E a, b \in Reports : a < r /\ r < b) =>
    signal = "cancelled"

\* ------------------------------------------------- claims on the pool's end
\* C16: fetcher.shutdown() is never called twice; when run_pipeline returns after the
\* FetcherPool was created, shutdown has been called exactly once, and no task of the
\* pool is queued or running any more; before the return it has not been called.
C16_ShutdownOnceAndWaits ==
  /\ shutdowns <= 1
  /\ ~returned.done => shutdowns = 0
  /\ (returned.done /\ html_content = NoHtml) =>
       /\ shutdowns = (IF cfg.load = "ok" THEN 1 ELSE 0)
       /\ \A i \in 1..Len(futs) : futs[i].st = "done"

\* C16 witness: a submit failed behind a submitted task, whose fetch the shutdown waited
\* for, in a run for which cancellation was requested; the run has returned and the pool
\* was shut down.
C16_Witness ==
  /\ returned.done
  /\ shutdowns = 1
  /\ is_interrupted
  /\ Len(futs) >= 1
  /\ \A i \in 1..Len(futs) : futs[i].st = "done"
  /\ FetchEvents = {}
  /\ \E i \in 1..Len(returned.metrics.errors) : returned.metrics.errors[i].kind = "fetch"

\* ------------------------------------------------------ claims on the sink
EntityDate(data) == <<DictGet(data, "player_id"), DictGet(data, "stat_date")>>
OneRowPerEntityDate(stats) ==
  \A i, j \in 1..Len(stats) : i # j => EntityDate(stats[i]) # EntityDate(stats[j])

\* C18: the statistics table never holds two rows of one (player, date), in the committed
\* tables as in those the connection sees; and a call that returns after a returned call
\* with the same items on the same day leaves as many rows as that call left.
C18_UpsertIdempotent ==
  /\ OneRowPerEntityDate(durable.stats)
  /\ OneRowPerEntityDate(conn.stats)
  /\ \A k \in 2..Len(calls) :
       ( /\ calls[k].st = "returned"
         /\ calls[k - 1].st = "returned"
         /\ calls[k].items = calls[k - 1].items
         /\ calls[k].day = calls[k - 1].day ) =>
       calls[k].rows = calls[k - 1].rows

\* C18 witness: the same two items were inserted twice on one day; each call wrote three
\* rows, two of them for one player, and the table holds two rows.
C18_Witness ==
  /\ Len(calls) = 2
  /\ calls[1].st = "returned"
  /\ calls[2].st = "returned"
  /\ calls[1].items = <<TableItem, AgainItem>>
  /\ calls[2].items = calls[1].items
  /\ calls[2].day = calls[1].day
  /\ calls[1].returned = 3
  /\ calls[2].returned = 3
  /\ calls[2].rows = 2
  /\ Len(durable.stats) = 2

\* C19 (as claimed): while a call of insert_player_stats runs, the committed tables are
\* those from before the call and no commit has been made; a call that has returned has
\* committed exactly once.
C19_OneTransaction ==
  /\ pc = "insert" =>
       /\ durable = calls[Len(calls)].before
       /\ commits = 0
  /\ (pc = "store_idle" /\ calls # <<>> /\ calls[Len(calls)].st = "returned") => commits = 1

\* The row list as stated: the first value that is a non-empty list of maps.
RECURSIVE StatedRowList(_, _)
StatedRowList(structured_data, i) ==
  IF i > Len(structured_data) THEN <<>>
  ELSE LET value == structured_data[i].val IN
       IF /\ value.t = "list"
          /\ value.items # <<>>
          /\ \A r \in 1..Len(value.items) : value.items[r].t = "dict"
       THEN value.items
       ELSE StatedRowList(structured_data, i + 1)

\* The rows of a row list that name a player, that is, the rows that are written.
Writable(rows) ==
  Cardinality({r \in 1..Len(rows) : rows[r].t = "dict" /\ Truthy(PlayerName(rows[r].d))})

RECURSIVE StatedCount(_, _)
StatedCount(items, k) ==
  IF k > Len(items) THEN 0
  ELSE Writable(StatedRowList(items[k].structured_data, 1)) + StatedCount(items, k + 1)

\* C20 (as claimed): a call writes, for every item, the rows of the first field that is a
\* non-empty list of maps, a list of scalars before it being passed over, and skips the
\* items that have no such field.
C20_FirstListOfMaps ==
  \A k \in 1..Len(calls) :
    calls[k].st = "returned" => calls[k].returned = StatedCount(calls[k].items, 1)

\* The row a log entry of a call is about.
LoggedRow(call, e) == MainDataList(call.items[e.item].structured_data, 1)[e.row]

\* The destination columns a row map yields beside the bookkeeping ones: the mapped
\* columns whose value is not null.
Destinations(row) == SelectSeq(ApplyMapping(<<>>, row, 1), LAMBDA e : e.val # None)

\* The passes of a call that were for a row map naming a player and yielding no
\* destination column.
BookkeepingOnly(call) ==
  {i \in 1..Len(call.log) :
     /\ LoggedRow(call, call.log[i]).t = "dict"
     /\ call.log[i].res \in {"not_enough", "inserted"}
     /\ Destinations(LoggedRow(call, call.log[i]).d) = <<>>}

\* C21 (as claimed): a row map that yields no destination column beside the identity and
\* date bookkeeping is skipped as not enough data: it is not written, and the value a
\* call returns counts only the rows that yield a destination column.
C21_BookkeepingOnlySkipped ==
  \A k \in 1..Len(calls) :
    /\ \A i \in BookkeepingOnly(calls[k]) : calls[k].log[i].res = "not_enough"
    /\ calls[k].st = "returned" =>
         calls[k].returned =
           Cardinality({i \in 1..Len(calls[k].log) :
                          /\ calls[k].log[i].res \in {"not_enough", "inserted"}
                          /\ Destinations(LoggedRow(calls[k], calls[k].log[i]).d) # <<>>})

\* The rows of the row lists of the items before position p of the loops.
RECURSIVE RowsBefore(_, _, _)
RowsBefore(items, p, k) ==
  IF k > Len(items) \/ k > p.item THEN 0
  ELSE IF k = p.item THEN (IF p.row = 0 THEN 0 ELSE p.row - 1)
  ELSE Len(MainDataList(items[k].structured_data, 1)) + RowsBefore(items, p, k + 1)

LogCount(call, res) == Cardinality({i \in 1..Len(call.log) : call.log[i].res = res})

\* C22: an exception in one pass of the row loop ends that pass only. While a call runs,
\* every row before the position of the loops has had its pass, whatever passes raised;
\* a call that has returned has made a pass for every row of every item, has counted
\* exactly the passes that wrote a row, none of those that raised, and has committed:
\* the committed table holds the row of every pass that wrote one.
C22_RowErrorIsolated ==
  /\ pc = "insert" =>
        Len(calls[Len(calls)].log) = RowsBefore(batch, pos, 1)
  /\ \A k \in 1..Len(calls) :
       calls[k].st = "returned" =>
         /\ Len(calls[k].log) =
              RowsBefore(calls[k].items, [item |-> Len(calls[k].items) + 1, row |-> 0], 1)
         /\ calls[k].returned = LogCount(calls[k], "inserted")
         /\ k = Len(calls) =>
              /\ durable = conn
              /\ \A i \in 1..Len(calls[k].log) :
                   calls[k].log[i].res = "inserted" =>
                     \E r \in 1..Len(durable.stats) :
                       EntityDate(durable.stats[r]) =
                         <<IntVal(calls[k].log[i].player_id), IntVal(calls[k].day)>>

\* C22 witness: a call has returned in which a pass raised and a later pass, of a later
\* item, wrote a row.
C22_Witness ==
  /\ calls # <<>>
  /\ calls[Len(calls)].st = "returned"
  /\ calls[Len(calls)].returned >= 1
  /\ \E i, j \in 1..Len(calls[Len(calls)].log) :
       /\ i < j
       /\ calls[Len(calls)].log[i].res = "error"
       /\ calls[Len(calls)].log[j].res = "inserted"
       /\ calls[Len(calls)].log[i].item < calls[Len(calls)].log[j].item

\* The passes of all calls so far in which get_or_create_player returned an id.
PlayerLookups ==
  UNION {{<<k, i>> : i \in {j \in 1..Len(calls[k].log) : calls[k].log[j].player_id # 0}} :
           k \in 1..Len(calls)}

LookedUp(l) == calls[l[1]].log[l[2]]

NoTwoOfOneName(players) ==
  \A i, j \in 1..Len(players) : i # j => players[i] # players[j]

\* C23: the players table holds at most one row per name, in the committed tables as in
\* those the connection sees; over all calls, two lookups of one name returned one id,
\* two lookups of different names returned different ids, and the id returned is that
\* of the row holding the name.
C23_GetOrCreateByName ==
  /\ NoTwoOfOneName(durable.players)
  /\ NoTwoOfOneName(conn.players)
  /\ \A a, b \in PlayerLookups :
       (LookedUp(a).player_name = LookedUp(b).player_name)
         <=> (LookedUp(a).player_id = LookedUp(b).player_id)
  /\ \A a \in PlayerLookups :
       /\ LookedUp(a).player_id \in 1..Len(conn.players)
       /\ conn.players[LookedUp(a).player_id] = LookedUp(a).player_name.s

\* C23 witness: a second call has looked up a player that the first call created, after
\* another player was created, and got the id the first call got.
C23_Witness ==
  /\ Len(calls) = 2
  /\ Len(conn.players) >= 2
  /\ \E a, b \in PlayerLookups :
       /\ a[1] = 1
       /\ b[1] = 2
       /\ LookedUp(a).player_name = LookedUp(b).player_name
       /\ LookedUp(a).player_id = LookedUp(b).player_id
       /\ LookedUp(a).player_id = 1

\* A value that is not empty: neither null nor a string of white space only.
NonEmpty(v) == v # None /\ (v.t = "str" => Strip(v.s) # <<>>)

\* The entity name as stated: the value of the first candidate key present with a
\* non-empty value, else the first string value with a letter in it, of any length.
RECURSIVE StatedCandidate(_, _)
StatedCandidate(row, k) ==
  IF k > Len(NameFields) THEN None
  ELSE IF NameFields[k] \in DictKeys(row) /\ NonEmpty(DictGet(row, NameFields[k]))
       THEN Str(Strip(DictGet(row, NameFields[k]).s))
       ELSE StatedCandidate(row, k + 1)

RECURSIVE StatedGuess(_, _)
StatedGuess(row, i) ==
  IF i > Len(row) THEN None
  ELSE IF row[i].val.t = "str" /\ (\E c \in 1..Len(row[i].val.s) : row[i].val.s[c] \in Letters)
       THEN Str(Strip(row[i].val.s))
       ELSE StatedGuess(row, i + 1)

StatedName(row) ==
  IF StatedCandidate(row, 1) # None THEN StatedCandidate(row, 1) ELSE StatedGuess(row, 1)

\* C24 (as claimed): the pass for a row map takes as the entity name the value of the
\* first candidate key present with a non-empty value, else the first string value with
\* a letter in it, of any length, and skips the row only when it has neither.
C24_NameResolution ==
  \A k \in 1..Len(calls) : \A i \in 1..Len(calls[k].log) :
    LoggedRow(calls[k], calls[k].log[i]).t = "dict" =>
      IF StatedName(LoggedRow(calls[k], calls[k].log[i]).d) = None
      THEN calls[k].log[i].res = "no_name"
      ELSE /\ calls[k].log[i].res # "no_name"
           /\ calls[k].log[i].player_name = StatedName(LoggedRow(calls[k], calls[k].log[i]).d)

\* The rules of a rule tree, at every nesting level.
RECURSIVE RuleTree(_)
RuleTree(rule) ==
  {rule} \cup UNION {RuleTree(rule.sub_selectors[k]) : k \in 1..Len(rule.sub_selectors)}

ConfigRules(c) ==
  UNION {UNION {RuleTree(c.sources[i].selectors.custom_fields[k]) :
                  k \in 1..Len(c.sources[i].selectors.custom_fields)} :
           i \in 1..Len(c.sources)}

\* A rule that must not be constructed, as stated: an attribute rule without an
\* attribute name, a structured_list rule without child rules, a rule of another kind
\* with child rules.
MustFail(rule) ==
  \/ rule.extract_type = "attribute" /\ rule.attribute_name = NoName
  \/ rule.extract_type = "structured_list" /\ Len(rule.sub_selectors) = 0
  \/ rule.extract_type # "structured_list" /\ Len(rule.sub_selectors) >= 1

\* C25: a rule that must fail does not validate, at whatever level of a rule tree it is
\* (the tree does not validate either), and a configuration holding such a rule is not
\* handed on: run_pipeline returns no item and the configuration error, no pool is
\* asked to fetch and nothing is parsed.
C25_InvalidRuleRejected ==
  /\ \A rule \in ConfigRules(cfg) :
       /\ MustFail(rule) => ~Validated(rule)
       /\ (\E below \in RuleTree(rule) : MustFail(below)) => ~Validated(rule)
  /\ (\E rule \in ConfigRules(cfg) : MustFail(rule)) =>
       /\ pc \in {"start", "done"}
       /\ futs = <<>>
       /\ history = <<>>
       /\ fetched_items = <<>>
       /\ returned.done =>
            /\ returned.items = <<>>
            /\ returned.metrics.errors = <<Error("config", "")>>

\* C25 witness: run_pipeline has returned the configuration error for a configuration
\* whose only failing rule is two levels below a top-level rule that passes its own
\* validator.
C25_Witness ==
  /\ returned.done
  /\ returned.metrics.errors = <<Error("config", "")>>
  /\ cfg.sources[1].selectors.custom_fields = <<Nested(Nested(NoAttributeName))>>
  /\ validate_dependencies(Nested(Nested(NoAttributeName)))

\* The title as stated: the text of the element the configured title selector matches,
\* else the text of the document's <title>, else empty.
StatedTitle(page, selectors) ==
  IF selectors.title # NoName /\ SelectOne(page, selectors.title).found
  THEN SelectOne(page, selectors.title).text
  ELSE IF page.title # None THEN Str(Strip(page.title.s))
  ELSE Str(<<>>)

SameTitle(a, b) == a = b \/ (~Truthy(a) /\ ~Truthy(b))

\* The page an extracted item was made of: the HTML handed in, or the page of its URL.
ItemPage(item) == IF html_content # NoHtml THEN html_content.page ELSE PageOf(item.source_url)

\* C26 (as claimed): in both entry points the title of every extracted item is the text
\* that the configured title selector matches, else the text of the document's <title>,
\* else empty; a title carried by the fetched item does not take its place.
C26_TitleOrder ==
  \A i \in 1..Len(all_extracted_items) :
    SameTitle(all_extracted_items[i].title,
              StatedTitle(ItemPage(all_extracted_items[i]), cfg.sources[1].selectors))

\* C27 (as claimed): a main-content selector that is invalid, matches nothing or gives no
\* text never costs the page its record: no pass over a fetched page ends in an error,
\* no parse error is recorded, and with an invalid main-content selector the item is
\* extracted all the same, its text being null.
C27_MainTextBestEffort ==
  /\ \A i \in ParseEvents : history[i].res # "error"
  /\ \A k \in 1..Len(metrics.errors) : metrics.errors[k].kind \notin {"parse", "html_parse"}
  /\ \A i \in 1..Len(all_extracted_items) :
       cfg.sources[1].selectors.main_content = InvalidSelector =>
         all_extracted_items[i].unstructured_text = None

\* C28: on every return of run_pipeline and of run_pipeline_on_html, after a failed
\* load, a failed validation of the HTML, a failed submit or a complete run,
\* items_extracted is the length of the list returned; on every return of run_pipeline
\* urls_fetched is the number of pages fetched for the sources whose fetch_all returned,
\* and is not smaller than items_extracted.
C28_MetricsConsistent ==
  returned.done =>
    /\ returned.metrics.items_extracted = Len(returned.items)
    /\ html_content = NoHtml =>
         /\ returned.metrics.urls_fetched = Cardinality(FetchEvents \ FailedFetches)
         /\ returned.metrics.urls_fetched >= returned.metrics.items_extracted

\* C28 witness: run_pipeline has returned after a fetch that failed, with more pages
\* fetched than items extracted and an item extracted.
C28_Witness ==
  /\ returned.done
  /\ html_content = NoHtml
  /\ FailedFetches # {}
  /\ returned.metrics.urls_fetched >= 2
  /\ returned.metrics.items_extracted >= 1
  /\ returned.metrics.items_extracted < returned.metrics.urls_fetched

\* ------------------------------------------- the project and its configuration
\* A ScrapingRule of the project (core/models.py); an unset attribute_name is NoName.
ScrapingRule(name, selector, extraction_type, attribute_name, is_list, sub_selectors) ==
  [id |-> name, name |-> name, selector |-> selector, description |-> "",
   extraction_type |-> extraction_type, attribute_name |-> attribute_name,
   is_list |-> is_list, data_type |-> "string", required |-> FALSE,
   sub_selectors |-> sub_selectors]

\* ScrapingRule.to_dict: the keys in the order the method writes them.
RECURSIVE to_dict(_)
to_dict(rule) ==
  << Entry("id", rule.id),
     Entry("name", rule.name),
     Entry("selector", rule.selector),
     Entry("description", rule.description),
     Entry("extraction_type", rule.extraction_type),
     Entry("attribute_name", rule.attribute_name),
     Entry("is_list", rule.is_list),
     Entry("data_type", rule.data_type),
     Entry("required", rule.required),
     Entry("sub_selectors",
           [k \in 1..Len(rule.sub_selectors) |-> to_dict(rule.sub_selectors[k])]) >>

\* A declared field of a pydantic model read from a mapping: the value under the
\* field's own name, its default when the key is absent.
FieldOf(d, key, default) == IF key \in DictKeys(d) THEN DictGet(d, key) ELSE default

\* The fields CustomFieldConfig(**d) takes from a mapping: the keys it declares (name,
\* selector, extract_type, attribute_name, is_list, sub_selectors); every other key of
\* the mapping is ignored.  Validation is load_config's DomainScrapeConfig.
RECURSIVE CustomFieldConfig(_)
CustomFieldConfig(d) ==
  Rule(FieldOf(d, "name", NoName),
       FieldOf(d, "selector", NoName),
       FieldOf(d, "extract_type", "text"),
       FieldOf(d, "attribute_name", NoName),
       FieldOf(d, "is_list", FALSE),
       LET subs == FieldOf(d, "sub_selectors", <<>>) IN
       [k \in 1..Len(subs) |-> CustomFieldConfig(subs[k])])

DefaultSeed == "https://example.com"

\* _create_backend_config_from_project, written to the temporary file by
\* export_project_config and read back by load_config: one source with the project's
\* URLs, or the default seed when it has none, and the rules as mappings.
BackendConfig(project) ==
  [load |-> "ok",
   sources |->
     << Source("first",
               IF project.target_websites # <<>> THEN project.target_websites
               ELSE <<DefaultSeed>>,
               [k \in 1..Len(project.scraping_rules) |->
                  CustomFieldConfig(to_dict(project.scraping_rules[k]))]) >>]

HeadingRule == ScrapingRule("heading", "th", "text", NoName, FALSE, <<>>)
LinkRule == ScrapingRule("link", "td", "attribute", "href", FALSE, <<>>)
CellsRule == ScrapingRule("cells", "td", "text", NoName, TRUE, <<>>)
TableRule ==
  ScrapingRule("table_data", "tr", "structured_list", NoName, FALSE,
               << ScrapingRule("name", "td", "text", NoName, FALSE, <<>>),
                  ScrapingRule("score", "td:nth-of-type(2)", "text", NoName, FALSE, <<>>) >>)

\* The projects in the window: a rule list that is all text rules, or holds an
\* attribute rule or a structured_list rule, over no, one or two target URLs.
Projects ==
  {ProjectConfig(urls, rules) :
     urls \in {<<>>, <<"u1">>, <<"u1", "u2">>},
     rules \in {<<HeadingRule>>, <<HeadingRule, CellsRule>>, <<LinkRule>>,
                <<HeadingRule, TableRule>>}}

\* ---------------------------------------------------------------- SpecGui
\* The scrapes one run of the window starts.
MaxScrapes == 2

\* The main window with a project loaded and no scrape started.
GuiInit ==
  /\ FieldIdle
  /\ pc = "gui_idle"
  /\ num_workers = MAX_CONCURRENT_FETCHERS
  /\ PoolFresh
  /\ PipeIdle
  /\ RunIdle
  /\ StoreIdle
  /\ current_project \in Projects
  /\ backend_thread = "none"
  /\ run_scrape_btn = TRUE
  /\ scrapes = 0

is_scrape_running == backend_thread = "running"

\* run_full_scrape, from the click on the Run button to the request for the page (or
\* the direct call of _initiate_scrape_with_html): the guards, the configuration
\* written for this scrape, the Run button disabled.  What the last scrape left in the
\* worker and the pipeline is gone with the worker.
run_full_scrape ==
  /\ pc = "gui_idle"
  /\ run_scrape_btn
  /\ scrapes < MaxScrapes
  /\ ~is_scrape_running
  /\ current_project.scraping_rules # <<>>
  /\ cfg' = BackendConfig(current_project)
  /\ run_scrape_btn' = FALSE
  /\ scrapes' = scrapes + 1
  /\ pc' = "initiate"
  /\ futs' = <<>>
  /\ yielded' = {}
  /\ results' = <<>>
  /\ log' = <<>>
  /\ fetch_ret' = <<>>
  /\ src_i' = 0
  /\ shutdowns' = 0
  /\ fetched_items' = <<>>
  /\ item_i' = 0
  /\ parsed_item' = NoParsed
  /\ all_extracted_items' = <<>>
  /\ metrics' = NoMetrics
  /\ returned' = NotReturned
  /\ history' = <<>>
  /\ is_interrupted' = FALSE
  /\ progress' = <<>>
  /\ signal' = ""
  /\ html_content' = NoHtml
  /\ UNCHANGED <<num_workers, progress_callback>>
  /\ UNCHANGED fieldVars
  /\ UNCHANGED storeVars
  /\ UNCHANGED <<current_project, backend_thread>>

\* _initiate_scrape_with_html(html_content): the thread and the ScrapeRunner are made,
\* the signals connected and the thread started; html_content is the browser's page
\* when the checkbox is set and None otherwise.
initiate_scrape_with_html ==
  /\ pc = "initiate"
  /\ html_content' \in {NoHtml, Html(200, TablePage)}
  /\ progress_callback' = "runner"
  /\ backend_thread' = "running"
  /\ pc' = "runner"
  /\ UNCHANGED fetchVarsButPc
  /\ UNCHANGED pipeVars
  /\ UNCHANGED fieldVars
  /\ UNCHANGED <<is_interrupted, progress, signal>>
  /\ UNCHANGED storeVars
  /\ UNCHANGED <<current_project, run_scrape_btn, scrapes>>

\* _cleanup_scrape_resources: the dialog closed, the Run button enabled, the worker
\* dropped, the thread quit, waited for and dropped.
cleanup_scrape_resources ==
  /\ run_scrape_btn' = TRUE
  /\ backend_thread' = "none"

\* _on_scrape_finished(status), the slot of ScrapeRunner.finished: every branch of it
\* ends in _cleanup_scrape_resources (the database save of the results is the
\* DatabaseInserter call of SpecStore and is not repeated here).
on_scrape_finished ==
  /\ pc = "ended"
  /\ signal = "success"
  /\ cleanup_scrape_resources
  /\ signal' = ""
  /\ pc' = "gui_idle"
  /\ UNCHANGED fetchVarsButPc
  /\ UNCHANGED pipeVars
  /\ UNCHANGED fieldVars
  /\ UNCHANGED <<progress_callback, is_interrupted, progress, html_content>>
  /\ UNCHANGED storeVars
  /\ UNCHANGED <<current_project, scrapes>>

\* The window's steps.  The source of a project's configuration always has a seed, so
\* the pipeline never skips it; ScrapeRunner.error is never emitted, both pipelines
\* return on every error, so on_backend_error never runs.
GuiNext ==
  \/ run_full_scrape
  \/ initiate_scrape_with_html
  \/ RunStart
  \/ RequestInterruption
  \/ LoadConfig
  \/ StartFetch
  \/ WorkerStart
  \/ WorkerFinish
  \/ Collect
  \/ Fetched
  \/ ParseItem
  \/ NextSource
  \/ Finish
  \/ HtmlNext
  \/ RunEnd
  \/ on_scrape_finished

SpecGui == GuiInit /\ [][GuiNext]_vars

\* ---------------------------------------------------------------- C29
\* A backend rule says what a project rule says: the same name, selector, extraction
\* kind, attribute name and is_list flag, and child rules that do so in turn.
RECURSIVE Equivalent(_, _)
Equivalent(config, rule) ==
  /\ config.name = rule.name
  /\ config.selector = rule.selector
  /\ config.extract_type = rule.extraction_type
  /\ config.attribute_name = rule.attribute_name
  /\ config.is_list = rule.is_list
  /\ Len(config.sub_selectors) = Len(rule.sub_selectors)
  /\ \A k \in 1..Len(rule.sub_selectors) :
       Equivalent(config.sub_selectors[k], rule.sub_selectors[k])

\* The rules ConfigManager has for the scrape under way or last run.
LoadedRules == cfg.sources[1].selectors.custom_fields

\* C29: once run_full_scrape has written the configuration of the project, load_config
\* accepts it and its rules are equivalent, one by one, to the project's ScrapingRules:
\* a structured_list rule with sub-rules loads as a structured_list rule, an attribute
\* rule as an attribute rule.
C29_BackendRulesEquivalent ==
  scrapes > 0 =>
    /\ load_config(cfg) = "config"
    /\ Len(LoadedRules) = Len(current_project.scraping_rules)
    /\ \A k \in 1..Len(current_project.scraping_rules) :
         Equivalent(LoadedRules[k], current_project.scraping_rules[k])

\* ---------------------------------------------------------------- C30
\* The window is idle: the Run button is enabled and no scrape counts as running.
Idle == run_scrape_btn /\ ~is_scrape_running

\* C30: every scrape that run_full_scrape started comes back to idle.  Once run() has
\* returned, it has emitted exactly one of finished / error and the slot of that signal
\* is still to run, or the slot has run _cleanup_scrape_resources: the Run button is
\* enabled again and _is_scrape_running() is false, whether or not the user cancelled.
C30_ScrapeReturnsToIdle ==
  (scrapes > 0 /\ pc \in {"ended", "gui_idle"}) =>
    \/ signal \in {"success", "error"}
    \/ Idle
====
